---------------------------- MODULE Spec2Model ----------------------------
(***************************************************************************)
(* A model of the PN532 UART driver of src/pn532.py: the frame codec and   *)
(* _send_command at byte level (SpecTransport), the initiator workflows at *)
(* command level (Spec), the emulation loop with the lock that serialises *)
(* the public workflows (SpecEmu, SpecEmuLive), the tag emulators on their *)
(* own (SpecDispatch) and behind the workflows (SpecCard), and single      *)
(* calls of _build_frame (SpecFrame) and _exchange_apdu (SpecExchange),    *)
(* and the body loops of read_ndef_tag and write_ndef_tag on their own,    *)
(* without the log of commands, under fairness (SpecLoop).                 *)
(*                                                                         *)
(* Bytes are the integers 0..255, byte strings are sequences of them.      *)
(* Hexadecimal values of the source are written in decimal, with the hex   *)
(* value in the comment.                                                   *)
(***************************************************************************)
EXTENDS Integers, Sequences, FiniteSets, TLC

(***************************************************************************)
(* Bounds of the model (not program constants).                            *)
(***************************************************************************)
\* commands sent in a row on one port in SpecTransport
MaxCmds == 2

(***************************************************************************)
(* Program constants.                                                      *)
(***************************************************************************)
\* src/pn532.py:16-21
PREAMBLE == 0
START1 == 0
START2 == 255
POSTAMBLE == 0
\* 0xD4
TFI_HOST_TO_PN532 == 212
\* 0xD5
TFI_PN532_TO_HOST == 213
\* src/pn532.py:23
ACK_FRAME == <<0, 0, 255, 0, 255, 0>>

\* command codes, src/pn532.py:253..367
\* 0x14
CMD_SAMConfiguration == 20
\* 0x02
CMD_GetFirmwareVersion == 2
\* 0x32
CMD_RFConfiguration == 50
\* 0x4A
CMD_InListPassiveTarget == 74
\* 0x40
CMD_InDataExchange == 64
\* 0x44
CMD_InRelease == 68
\* 0x16
CMD_PowerDown == 22
\* 0x12
CMD_SetParameters == 18
\* 0x8C
CMD_TgInitAsTarget == 140
\* 0x86
CMD_TgGetData == 134
\* 0x8E
CMD_TgSetData == 142

(***************************************************************************)
(* Byte-string helpers (Python slicing and sum).                           *)
(***************************************************************************)
Min(a, b) == IF a < b THEN a ELSE b


\* s[:n]
Take(s, n) == SubSeq(s, 1, Min(n, Len(s)))

\* s[n:]
Drop(s, n) == SubSeq(s, n + 1, Len(s))

\* s[a:b] for 0 <= a, 0 <= b
Slice(s, a, b) == SubSeq(s, a + 1, Min(b, Len(s)))

\* sum(s), by halves so that the evaluation stays shallow on long strings
RECURSIVE Sum(_)
Sum(s) ==
    IF s = <<>> THEN 0
    ELSE IF Len(s) = 1 THEN s[1]
    ELSE Sum(Take(s, Len(s) \div 2)) + Sum(Drop(s, Len(s) \div 2))

\* the optional value: a function's result or Python's None
Some(v) == [some |-> TRUE, v |-> v]

None == [some |-> FALSE, v |-> <<>>]

(***************************************************************************)
(* Frame codec: PN532._build_frame.  bytes([...]) raises ValueError when   *)
(* an element is outside 0..255, which happens exactly when len(data) >    *)
(* 255 (lcs and dcs are masked with 0xFF).                                 *)
(***************************************************************************)
FrameRaises(params) == 2 + Len(params) > 255

\* a codec whose DCS leaves out TFI and the command code
BuildFrame_DcsOverParams(cmd, params) ==
    LET length == 2 + Len(params)
        lcs == (256 - length) % 256
        dcs == (256 - (Sum(params) % 256)) % 256
    IN  <<PREAMBLE, START1, START2, length, lcs, TFI_HOST_TO_PN532, cmd>>
        \o params \o <<dcs, POSTAMBLE>>

BuildFrame(cmd, params) ==
    LET data == <<TFI_HOST_TO_PN532, cmd>> \o params
        length == Len(data)
        lcs == (256 - length) % 256
        dcs == (256 - (Sum(data) % 256)) % 256
    IN  <<PREAMBLE, START1, START2, length, lcs>> \o data \o <<dcs, POSTAMBLE>>


(***************************************************************************)
(* State.  One module holds the variables of every specification; a        *)
(* specification leaves the variables of the others at their initial       *)
(* value.                                                                  *)
(***************************************************************************)
VARIABLES
    \* SpecTransport: one serial port seen from _send_command
    rxbuf,      \* the port's input buffer: bytes tagged with the number of
                \* the command the PN532 sent them in answer to
    cmdNo,      \* number of _send_command calls made so far
    t_cmd,      \* the command code of the latest call
    t_frame,    \* the frame the latest call wrote
    t_reply,    \* what the PN532 sent in answer to the latest call
    t_ack,      \* the bytes the latest call read in the ACK slot
    t_hdr,      \* whether the latest call went on to read a response header
    t_read,     \* the tagged bytes the latest call consumed
    t_result,   \* what the latest call returned
    \* Spec: one initiator workflow on one PN532 object
    wf,         \* the workflow called
    args,       \* its arguments: [offset, length, data]
    pc,         \* where the workflow stands
    serialOpen, \* self._serial is an open port
    sent,       \* history: the commands written and the port events, in order
    samPhase,   \* sam_configuration: 1 soft retries, 2 after hard reset, 3 after reopen
    samTry,     \* sam_configuration: failed attempts in this phase
    stage,      \* which APDU of the workflow _exchange_apdu is sending
    attempt,    \* _exchange_apdu: the loop variable `attempt`
    cc_data,    \* the CC file read from the card
    offset,     \* body loops: file offset of the next chunk
    remaining,  \* read_ndef_tag: bytes still to read
    ndef_bytes, \* read_ndef_tag: bytes collected
    remaining_data, \* write_ndef_tag: bytes still to write
    cardSeen,   \* _parse_14443a_target returned a card
    nbTg,       \* NbTg of the InListPassiveTarget response (0 when none came)
    bodyCmds,   \* body loops: READ/UPDATE BINARY commands sent by the loop
    exc,        \* the exception that ended the workflow, or "none"
    result,     \* the dict the workflow returns
    rejected,   \* history: the status words other than 90 00 that
                \* _exchange_apdu returned to the workflow
    prevResp,   \* _exchange_apdu: `resp` of the loop's previous pass, while
                \* the loop is going round again (None otherwise)
    \* SpecEmu: threads calling the public methods of one PN532 object
    lock,       \* self._lock: the thread that holds it, or "free"
    job,        \* the method each thread calls
    tpc,        \* where each thread stands in its method
    stop,       \* stop_event.is_set()
    portOpen,   \* self._serial is an open port
    cto,        \* emulate_tag: consecutive_timeouts
    r_apdu,     \* emulate_tag: the R-APDU handed to tg_set_data
    emuSel,     \* VaultTagEmulator._selected
    emuBuf,     \* VaultTagEmulator._buffer
    emuExc,     \* the exception that ended emulate_tag, or "none"
    flight,     \* history: "flying" when stop was set under a loop command
                \* still in flight, "landed" once that command has returned
    lateCmds,   \* history: loop commands started while flight = "landed"
    afterStop,  \* history: loop commands started after stop was set
    silent,     \* history: TgGetData commands that returned None in a row,
                \* with no TgInitAsTarget sent since the first of them
    emuCfg,     \* history: sam_configuration / set_parameters of this run
                \* returned a response
    \* SpecDispatch, SpecCard: a tag emulator and the APDUs it handles
    c_kind,     \* which emulator: "vault" or "type4"
    c_selected, \* VaultTagEmulator._selected
    c_buffer,   \* VaultTagEmulator._buffer
    c_file,     \* Type4TagEmulator._selected_file: "none", "cc" or "ndef"
    c_msg,      \* Type4TagEmulator._ndef_msg
    c_apdu,     \* the latest C-APDU handled
    c_reply,    \* the R-APDU handle_apdu returned for it
    c_count,    \* number of APDUs handled so far
    c_alive,    \* emulate_tag is still serving the emulator
    c_aid,      \* history: a SELECT by the emulator's AID was handled / returned 90 00
    c_before,   \* history: _selected and _buffer before the latest APDU
    c_prev,     \* history: the APDU before the latest
    c_shadow,   \* history: the bytes the in-range WRITEs put at each offset
    calls,      \* SpecCard: the workflow calls still to make
    results,    \* SpecCard: the results of the calls made, in order
    \* SpecFrame, SpecExchange: single calls of _build_frame and of _exchange_apdu
    f_cmd,      \* _build_frame: cmd of the latest call
    f_params,   \* _build_frame: params of the latest call
    f_frame,    \* _build_frame: the frame it returned (<<>> when it raised)
    f_raised,   \* _build_frame: the latest call raised ValueError
    x_attempt,  \* _exchange_apdu: `attempt` of the loop
    x_resp,     \* _exchange_apdu: `resp` of the latest pass
    x_ret,      \* _exchange_apdu: how the latest pass ended
    x_card      \* history: the R-APDU the card produced for that pass

tvars == <<rxbuf, cmdNo, t_cmd, t_frame, t_reply, t_ack, t_hdr, t_read, t_result>>

wvars == <<wf, args, pc, serialOpen, sent, samPhase, samTry, stage, attempt, cc_data,
           offset, remaining, ndef_bytes, remaining_data, cardSeen, nbTg, bodyCmds,
           exc, result, rejected, prevResp>>

evars == <<lock, job, tpc, stop, portOpen, cto, r_apdu, emuSel, emuBuf, emuExc, flight,
           lateCmds, afterStop, silent, emuCfg>>

cvars == <<c_kind, c_selected, c_buffer, c_file, c_msg, c_apdu, c_reply, c_count,
           c_alive, c_aid, c_before, c_prev, c_shadow, calls, results>>

hvars == <<f_cmd, f_params, f_frame, f_raised, x_attempt, x_resp, x_ret, x_card>>

(***************************************************************************)
(* _send_command, byte level.  `avail` is what the port delivers before    *)
(* the call's deadlines: serial.read(n) returns the first n bytes of it,   *)
(* or fewer when fewer arrive in time.                                     *)
(***************************************************************************)
Bytes(s) == [i \in 1..Len(s) |-> s[i].b]

Tag(s, n) == [i \in 1..Len(s) |-> [b |-> s[i], of |-> n]]

\* a plausible slip: only the start code of the ACK is compared
AckOk_StartCodeOnly(ack) == Len(ack) = 6 /\ SubSeq(ack, 1, 3) = SubSeq(ACK_FRAME, 1, 3)

\* src/pn532.py:108  `if ack != ACK_FRAME: return None`
AckOk(ack) == ack = ACK_FRAME

\* The result of _send_command and the number of bytes it consumed.
SendCommandRead(avail) ==
    LET ack == Take(avail, 6)
    IN  IF ~AckOk(Bytes(ack))
        THEN [result |-> None, used |-> Len(ack), ack |-> Bytes(ack), hdr |-> FALSE]
        ELSE
        LET rest == Drop(avail, 6)
            header == Take(rest, 5)
        IN  IF Len(header) < 5
            THEN [result |-> None, used |-> 6 + Len(header), ack |-> Bytes(ack), hdr |-> TRUE]
            ELSE
            LET resp_len == header[4].b
                to_read == resp_len + 2
                body == Take(Drop(rest, 5), to_read)
                data_payload == Take(body, resp_len)
            IN  IF Len(body) < to_read
                THEN [result |-> None, used |-> 11 + Len(body), ack |-> Bytes(ack), hdr |-> TRUE]
                ELSE [result |-> IF Len(data_payload) < 1 THEN None
                                 ELSE Some(Bytes(data_payload)),
                      used |-> 11 + to_read, ack |-> Bytes(ack), hdr |-> TRUE]

(***************************************************************************)
(* The PN532 as the environment of _send_command: what it may put on the   *)
(* wire in answer to a command, and when.                                  *)
(***************************************************************************)
\* a response frame around the data block `data` (TFI, response code, ...)
RespFrame(data) ==
    <<PREAMBLE, START1, START2, Len(data), (256 - Len(data)) % 256>>
        \o data \o <<(256 - (Sum(data) % 256)) % 256, POSTAMBLE>>

\* the data block the PN532 answers a command with (response code cmd + 1)
RespData(cmd) ==
    IF cmd = CMD_TgInitAsTarget THEN <<TFI_PN532_TO_HOST, cmd + 1, 8>>
    ELSE <<TFI_PN532_TO_HOST, cmd + 1, 0>>

\* single-byte mutations: byte i of s replaced by another value
MutDeltas == {1, 128, 255}

Mutants(s, positions) ==
    {[s EXCEPT ![i] = (s[i] + d) % 256] : i \in positions, d \in MutDeltas}

\* proper prefixes of s (a read that comes up short)
Prefixes(s) == {SubSeq(s, 1, n) : n \in 0..(Len(s) - 1)}

\* positions of LEN, LCS, the data block and DCS in a response frame
BodyPositions(frame) == 4..(Len(frame) - 1)

\* A frame-shaped byte string whose LEN matches its size
WellSized(frame) == Len(frame) >= 7 /\ frame[4] = Len(frame) - 7

ChecksumsOk(frame) ==
    /\ (frame[4] + frame[5]) % 256 = 0
    /\ Sum(SubSeq(frame, 6, Len(frame) - 1)) % 256 = 0

DeviceReplies(cmd) ==
    LET good == RespFrame(RespData(cmd))
    IN  \* the proper answer, in time, or with the response (or all of it)
        \* arriving only after the call has given up
        {[intime |-> ACK_FRAME \o good, late |-> <<>>, kind |-> "good"],
         [intime |-> ACK_FRAME, late |-> good, kind |-> "resp_late"],
         [intime |-> <<>>, late |-> ACK_FRAME \o good, kind |-> "all_late"],
         [intime |-> <<>>, late |-> <<>>, kind |-> "silent"]}
        \cup \* a damaged or short ACK, followed by the response
        {[intime |-> a \o good, late |-> <<>>, kind |-> "bad_ack"]
            : a \in Mutants(ACK_FRAME, 1..6)}
        \cup
        {[intime |-> a, late |-> <<>>, kind |-> "short_ack"]
            : a \in Prefixes(ACK_FRAME) \ {<<>>}}
        \cup \* a proper ACK, followed by a damaged or short response
        {[intime |-> ACK_FRAME \o f, late |-> <<>>, kind |-> "bad_resp"]
            : f \in Mutants(good, BodyPositions(good))}
        \cup
        {[intime |-> ACK_FRAME \o f, late |-> <<>>, kind |-> "short_resp"]
            : f \in Prefixes(good) \ {<<>>}}
        \cup \* a proper ACK, followed by the PN532's error frame
           \* 00 00 FF 01 FF 7F 81 00 (a command it does not accept), whose
           \* one data byte 0x7F stands where the TFI is
        {[intime |-> ACK_FRAME \o RespFrame(<<127>>), late |-> <<>>,
          kind |-> "error_frame"]}

\* the commands of the emulation loop, which waits on them with a deadline
TCmds == {CMD_TgInitAsTarget, CMD_TgGetData}

\* One _send_command(cmd) call on the port, and the PN532's answer to it.
TSendCommand ==
    /\ cmdNo < MaxCmds
    /\ \E cmd \in TCmds :
       \E reply \in DeviceReplies(cmd) :
          LET n == cmdNo + 1
              avail == rxbuf \o Tag(reply.intime, n)
              r == SendCommandRead(avail)
          IN  /\ cmdNo' = n
              /\ t_cmd' = cmd
              /\ t_frame' = BuildFrame(cmd, <<>>)
              /\ t_reply' = reply
              /\ t_ack' = r.ack
              /\ t_hdr' = r.hdr
              /\ t_read' = Take(avail, r.used)
              /\ t_result' = r.result
              /\ rxbuf' = Drop(avail, r.used) \o Tag(reply.late, n)
    /\ UNCHANGED <<wvars, evars, cvars, hvars>>


(***************************************************************************)
(* Command level: the initiator workflows.  A command is one               *)
(* _send_command call whose result (a payload or None) is drawn from what  *)
(* the PN532 and the card can answer.                                      *)
(***************************************************************************)
\* cap on the READ BINARY / UPDATE BINARY body commands explored per run
MaxBodyCmds == 3

\* sam_configuration(retries=3), src/pn532.py:250
SAM_RETRIES == 3

\* _exchange_apdu(retries=1), src/pn532.py:656
APDU_RETRIES == 1

\* read_ndef_tag: max_read = 59, src/pn532.py:793
MAX_READ == 59

\* write_ndef_tag: min(mlc, 52), src/pn532.py:949
MAX_WRITE_CAP == 52

\* VaultTagEmulator.VAULT_AID  F0 01 02 03 04 05
VAULT_AID == <<240, 1, 2, 3, 4, 5>>

\* the NDEF application  D2 76 00 00 85 01 01
NDEF_AID == <<210, 118, 0, 0, 133, 1, 1>>

\* status word 90 00
SW_OK == <<144, 0>>

\* status word 6A 82
SW_NOT_FOUND == <<106, 130>>

\* n bytes of value b
Fill(n, b) == [i \in 1..n |-> b]

\* struct.pack(">H", n)
PackH(n) == <<(n \div 256) % 256, n % 256>>

Cmd(c, p) == [k |-> "cmd", cmd |-> c, params |-> p]

Event(name) == [k |-> name, cmd |-> 0, params |-> <<>>]

\* _wakeup: the sync bytes, then the sacrificial GetFirmwareVersion
WakeupTrace == <<Event("wakeup"), Cmd(CMD_GetFirmwareVersion, <<>>)>>

(***************************************************************************)
(* _parse_14443a_target: None, or the card (only its UID, ATQA, SAK, ATS). *)
(* Python index k is index k + 1 here.                                     *)
(***************************************************************************)
Parse14443aTarget(resp) ==
    IF ~resp.some \/ Len(resp.v) < 3 THEN None
    ELSE IF resp.v[3] = 0 THEN None
    ELSE IF Len(resp.v) < 8 THEN None
    ELSE
    LET r == resp.v
        atqa == Slice(r, 4, 6)
        sak == r[7]
        uid_len == r[8]
        off == 8 + uid_len
    IN  IF Len(r) < 8 + uid_len THEN None
        ELSE
        LET ats == IF off < Len(r) /\ off + r[off + 1] <= Len(r)
                   THEN Slice(r, off + 1, off + r[off + 1])
                   ELSE <<>>
        IN  Some([uid |-> Slice(r, 8, 8 + uid_len), atqa |-> atqa, sak |-> sak, ats |-> ats])

(***************************************************************************)
(* _exchange_apdu, one pass of its loop on the InDataExchange response     *)
(* `resp`: what the pass ends in.                                          *)
(*   "raise"  a RuntimeError leaves the helper                             *)
(*   "again"  the loop goes round (the APDU is sent again)                 *)
(*   "ret"    (sw1, sw2, payload) is returned                              *)
(***************************************************************************)
StripPcbCid_None(data) == data

\* the CID-leak workaround of src/pn532.py:680-681
StripPcbCid(data) ==
    IF Len(data) >= 3 /\ (data[1] % 16) \div 8 = 1 /\ data[1] \div 32 = 0
    THEN Drop(data, 2)
    ELSE data

ExchangePass(resp, att) ==
    IF ~resp.some \/ Len(resp.v) < 3
    THEN [out |-> "raise", sw |-> <<>>, payload |-> <<>>]
    ELSE IF resp.v[3] # 0
    THEN IF att < APDU_RETRIES
         THEN [out |-> "again", sw |-> <<>>, payload |-> <<>>]
         ELSE [out |-> "raise", sw |-> <<>>, payload |-> <<>>]
    ELSE
    LET data == StripPcbCid(Drop(resp.v, 3))
    IN  IF Len(data) >= 2
        THEN [out |-> "ret", sw |-> Drop(data, Len(data) - 2),
              payload |-> Take(data, Len(data) - 2)]
        ELSE IF att < APDU_RETRIES
        THEN [out |-> "again", sw |-> <<>>, payload |-> <<>>]
        ELSE [out |-> "raise", sw |-> <<>>, payload |-> <<>>]


(***************************************************************************)
(* The environment of a workflow: what the PN532 returns for each command  *)
(* and what a card may answer to each APDU.                                *)
(***************************************************************************)
\* D5 15
SamResponses == {None, Some(<<213, 21>>)}

\* D5 03 32 01 06 07
FirmwareResponses == {None, Some(<<213, 3, 50, 1, 6, 7>>)}

\* D5 4B NbTg ...: no answer, no target, one target (UID aa bb cc dd), and a
\* response that reports a target but is cut short
InListResponses ==
    {None,
     Some(<<213, 75, 0>>),
     Some(<<213, 75, 1, 1, 0, 4, 8, 4, 170, 187, 204, 221>>),
     Some(<<213, 75, 1, 1, 0, 4, 8>>)}

\* a capability container with the given MLc, max NDEF size and write access
CCFile(mlc, maxsize, wa) ==
    <<0, 15, 32, 0, 59>> \o PackH(mlc) \o <<4, 6, 225, 4>> \o PackH(maxsize) \o <<0, wa>>

CCFiles ==
    {CCFile(52, 255, 0), CCFile(52, 255, 255), CCFile(52, 2, 0), CCFile(0, 255, 0),
     CCFile(2, 255, 0), CCFile(255, 255, 0)}

\* the message bytes 1, 2, ..., n
Msg(n) == [i \in 1..n |-> i % 256]

Workflows == {"scan_type_a", "read_vault_tag", "write_vault_tag", "read_ndef_tag", "write_ndef_tag"}

NoArgs == [offset |-> 0, length |-> 0, data |-> <<>>]

ArgsOf(w) ==
    CASE w = "read_vault_tag" ->
            {[offset |-> 0, length |-> 5, data |-> <<>>],
             [offset |-> 300, length |-> 4, data |-> <<>>]}
      [] w = "write_vault_tag" ->
            {[offset |-> 250, length |-> 0, data |-> Msg(5)],
             [offset |-> 0, length |-> 0, data |-> Msg(248)],
             [offset |-> 0, length |-> 0, data |-> Msg(256)]}
      [] w = "write_ndef_tag" ->
            {[offset |-> 0, length |-> 0, data |-> <<>>],
             [offset |-> 0, length |-> 0, data |-> Msg(1)],
             [offset |-> 0, length |-> 0, data |-> Msg(53)]}
      [] OTHER -> {NoArgs}

\* chunks as large as MLc allows
MaxWrite_NoCap == cc_data[6] * 256 + cc_data[7]

\* write_ndef_tag: max_write = min(mlc, 52), mlc from CC bytes 5-6
MaxWrite == Min(cc_data[6] * 256 + cc_data[7], MAX_WRITE_CAP)

\* the APDU of the current stage
StageApdu ==
    CASE stage = "select" -> <<0, 164, 4, 0, Len(VAULT_AID)>> \o VAULT_AID \o <<0>>
      [] stage = "read" -> <<0, 176, 0, args.offset % 256, args.length % 256>>
      [] stage = "write" -> <<0, 208, 0, args.offset % 256, Len(args.data)>> \o args.data
      [] stage = "sel_aid" -> <<0, 164, 4, 0, Len(NDEF_AID)>> \o NDEF_AID \o <<0>>
      [] stage = "sel_cc" -> <<0, 164, 0, 12, 2, 225, 3>>
      [] stage = "read_cc" -> <<0, 176, 0, 0, 15>>
      [] stage = "sel_ndef" -> <<0, 164, 0, 12, 2, cc_data[10], cc_data[11]>>
      [] stage = "read_len" -> <<0, 176, 0, 0, 2>>
      [] stage = "body" ->
            <<0, 176, (offset \div 256) % 256, offset % 256, Min(remaining, MAX_READ)>>
      [] stage = "upd_zero" -> <<0, 214, 0, 0, 2, 0, 0>>
      [] stage = "upd_body" ->
            <<0, 214, (offset \div 256) % 256, offset % 256,
              Len(Take(remaining_data, MaxWrite))>> \o Take(remaining_data, MaxWrite)
      [] stage = "upd_len" -> <<0, 214, 0, 0, 2>> \o PackH(Len(args.data))
      [] OTHER -> <<>>

\* bytes([...]) raises ValueError on an element above 255: the APDU itself
\* (write_vault_tag's Lc) or the frame around it (_build_frame's LEN)
ApduRaises(apdu) ==
    \/ \E i \in DOMAIN apdu : apdu[i] > 255
    \/ FrameRaises(<<1>> \o apdu)

\* what a card may answer to the APDU of the current stage
CardAnswers ==
    {SW_OK, SW_NOT_FOUND, <<>>}
    \cup
    CASE stage = "read" -> {Fill(args.length % 256, 170) \o SW_OK}
      [] stage = "read_cc" ->
            {cc \o SW_OK : cc \in CCFiles} \cup {Take(CCFile(52, 255, 0), 14) \o SW_OK}
      [] stage = "read_len" -> {<<0, 0, 144, 0>>, <<0, 1, 144, 0>>, <<0, 60, 144, 0>>, <<0, 144, 0>>}
      [] stage = "body" ->
            {Fill(Min(remaining, MAX_READ), 170) \o SW_OK,
             Fill(Min(remaining, MAX_READ) - 1, 170) \o SW_OK}
      [] OTHER -> {}

\* D5 41 Status DataOut: no response, a response cut short, a PN532 error
\* status (0x01, timeout), or status 0x00 and the card's answer
IdeResponses ==
    {None, Some(<<213, 65>>), Some(<<213, 65, 1>>)}
    \cup {Some(<<213, 65, 0>> \o a) : a \in CardAnswers}


(***************************************************************************)
(* The workflows, one action per command or port operation.                *)
(***************************************************************************)
NoResult == [success |-> FALSE, error |-> "(running)", sw |-> <<>>, data |-> <<>>]

Ok(data) == [success |-> TRUE, error |-> "", sw |-> <<>>, data |-> data]

Fail(error, sw) == [success |-> FALSE, error |-> error, sw |-> sw, data |-> <<>>]

WInit ==
    /\ wf \in Workflows
    /\ args \in ArgsOf(wf)
    /\ pc = "open"
    /\ serialOpen = FALSE
    /\ sent = <<>>
    /\ samPhase = 1
    /\ samTry = 0
    /\ stage = "none"
    /\ attempt = 0
    /\ cc_data = <<>>
    /\ offset = 0
    /\ remaining = 0
    /\ ndef_bytes = <<>>
    /\ remaining_data = <<>>
    /\ cardSeen = FALSE
    /\ nbTg = 0
    /\ bodyCmds = 0
    /\ exc = "none"
    /\ result = NoResult
    /\ rejected = {}
    /\ prevResp = None

\* the variables only _exchange_apdu's callers change
locals == <<cc_data, offset, remaining, ndef_bytes, remaining_data, bodyCmds>>

\* an exception reaches the workflow's except clauses: every one of them
\* returns a failure dict at once (SerialException also closes the port)
Raise(e) ==
    /\ pc' = "done"
    /\ exc' = e
    /\ result' = Fail(e, <<>>)
    /\ serialOpen' = IF e = "SerialException" THEN FALSE ELSE serialOpen

\* _ensure_open on a fresh object: open the port, pulse DTR, flush
WfEnsureOpen ==
    /\ pc = "open"
    /\ \/ /\ serialOpen' = TRUE
          /\ sent' = Append(sent, Event("open"))
          /\ pc' = "wakeup"
          /\ UNCHANGED <<exc, result>>
       \/ \* serial.Serial.open() raises SerialException
          /\ Raise("SerialException")
          /\ UNCHANGED sent
    /\ UNCHANGED <<wf, args, samPhase, samTry, stage, attempt, cardSeen, nbTg, locals>>
    /\ UNCHANGED <<rejected, prevResp>>
    /\ UNCHANGED <<tvars, evars, cvars, hvars>>

\* _wakeup (the result of its GetFirmwareVersion is discarded)
WfWakeup ==
    /\ pc = "wakeup"
    /\ sent' = sent \o WakeupTrace
    /\ pc' = "sam"
    /\ UNCHANGED <<wf, args, serialOpen, samPhase, samTry, stage, attempt, cardSeen, nbTg,
                   locals, exc, result>>
    /\ UNCHANGED <<rejected, prevResp>>
    /\ UNCHANGED <<tvars, evars, cvars, hvars>>

\* where a workflow goes when sam_configuration returns resp
AfterSam(resp) ==
    IF ~resp.some
    THEN /\ pc' = "done"
         /\ result' = Fail("SAMConfiguration failed", <<>>)
    ELSE /\ pc' = IF wf = "scan_type_a" THEN "fw" ELSE "rf1"
         /\ UNCHANGED result

\* a slip: the escalation starts after the first failure
SamPhaseOver_Mutant == samTry + 1 >= 1

\* `for attempt in range(retries)` is over after this failure
SamPhaseOver == samTry + 1 >= SAM_RETRIES

\* sam_configuration: one SAMConfiguration command of one of its three loops
SamAttempt ==
    /\ pc = "sam"
    /\ sent' = Append(sent, Cmd(CMD_SAMConfiguration, <<1, 0>>))
    /\ \E resp \in SamResponses :
          IF resp.some
          THEN /\ AfterSam(resp)
               /\ UNCHANGED <<samPhase, samTry>>
          ELSE \* reset_input_buffer, sleep, next attempt
               IF ~SamPhaseOver
               THEN /\ samTry' = samTry + 1
                    /\ UNCHANGED <<pc, samPhase, result>>
               ELSE IF samPhase = 1
               THEN /\ pc' = "sam_reset"
                    /\ UNCHANGED <<samPhase, samTry, result>>
               ELSE IF samPhase = 2
               THEN /\ pc' = "sam_reconnect"
                    /\ UNCHANGED <<samPhase, samTry, result>>
               ELSE /\ AfterSam(None)
                    /\ UNCHANGED <<samPhase, samTry>>
    /\ UNCHANGED <<wf, args, serialOpen, stage, attempt, cardSeen, nbTg, locals, exc>>
    /\ UNCHANGED <<rejected, prevResp>>
    /\ UNCHANGED <<tvars, evars, cvars, hvars>>

\* sam_configuration: _hard_reset, _wakeup, then the second loop
SamHardReset ==
    /\ pc = "sam_reset"
    /\ sent' = Append(sent, Event("hard_reset")) \o WakeupTrace
    /\ samPhase' = 2
    /\ samTry' = 0
    /\ pc' = "sam"
    /\ UNCHANGED <<wf, args, serialOpen, stage, attempt, cardSeen, nbTg, locals, exc, result>>
    /\ UNCHANGED <<rejected, prevResp>>
    /\ UNCHANGED <<tvars, evars, cvars, hvars>>

\* sam_configuration: _close, _ensure_open, _wakeup, then the third loop
SamReconnect ==
    /\ pc = "sam_reconnect"
    /\ \/ /\ sent' = sent \o <<Event("close"), Event("open")>> \o WakeupTrace
          /\ samPhase' = 3
          /\ samTry' = 0
          /\ pc' = "sam"
          /\ UNCHANGED <<serialOpen, exc, result>>
       \/ \* the port cannot be opened again
          /\ sent' = Append(sent, Event("close"))
          /\ Raise("SerialException")
          /\ UNCHANGED <<samPhase, samTry>>
    /\ UNCHANGED <<wf, args, stage, attempt, cardSeen, nbTg, locals>>
    /\ UNCHANGED <<rejected, prevResp>>
    /\ UNCHANGED <<tvars, evars, cvars, hvars>>

\* scan_type_a: get_firmware_version (only names the device)
WfFirmware ==
    /\ pc = "fw"
    /\ sent' = Append(sent, Cmd(CMD_GetFirmwareVersion, <<>>))
    /\ pc' = "rf1"
    /\ UNCHANGED <<wf, args, serialOpen, samPhase, samTry, stage, attempt, cardSeen, nbTg,
                   locals, exc, result>>
    /\ UNCHANGED <<rejected, prevResp>>
    /\ UNCHANGED <<tvars, evars, cvars, hvars>>

\* rf_configuration(0x05, FF 01 FF) then rf_configuration(0x02, 00 0B 0E);
\* the responses are not looked at
WfRfConfig ==
    /\ pc \in {"rf1", "rf2"}
    /\ sent' = Append(sent, Cmd(CMD_RFConfiguration,
                                IF pc = "rf1" THEN <<5, 255, 1, 255>> ELSE <<2, 0, 11, 14>>))
    /\ pc' = IF pc = "rf1" THEN "rf2" ELSE "inlist"
    /\ UNCHANGED <<wf, args, serialOpen, samPhase, samTry, stage, attempt, cardSeen, nbTg,
                   locals, exc, result>>
    /\ UNCHANGED <<rejected, prevResp>>
    /\ UNCHANGED <<tvars, evars, cvars, hvars>>

\* the first APDU of a workflow
FirstStage == IF wf \in {"read_vault_tag", "write_vault_tag"} THEN "select" ELSE "sel_aid"

\* in_list_passive_target and _parse_14443a_target
WfInList ==
    /\ pc = "inlist"
    /\ sent' = Append(sent, Cmd(CMD_InListPassiveTarget, <<1, 0>>))
    /\ \E resp \in InListResponses :
          LET card == Parse14443aTarget(resp)
          IN  /\ cardSeen' = card.some
              /\ nbTg' = IF resp.some /\ Len(resp.v) >= 3 THEN resp.v[3] ELSE 0
              /\ IF wf = "scan_type_a"
                 THEN /\ pc' = IF card.some THEN "rel" ELSE "pd"
                      /\ result' = Ok(IF card.some THEN card.v.uid ELSE <<>>)
                      /\ UNCHANGED stage
                 ELSE IF ~card.some
                 THEN /\ pc' = "pd"
                      /\ result' = Fail("No card detected", <<>>)
                      /\ UNCHANGED stage
                 ELSE /\ pc' = "xchg"
                      /\ stage' = FirstStage
                      /\ UNCHANGED result
    /\ UNCHANGED <<wf, args, serialOpen, samPhase, samTry, attempt, locals, exc>>
    /\ UNCHANGED <<rejected, prevResp>>
    /\ UNCHANGED <<tvars, evars, cvars, hvars>>


(***************************************************************************)
(* What a workflow does with the (sw, payload) _exchange_apdu returned for *)
(* the APDU of the current stage: the next values of the variables it      *)
(* changes.                                                                *)
(***************************************************************************)
Cur ==
    [pc |-> pc, stage |-> stage, result |-> result, cc_data |-> cc_data,
     offset |-> offset, remaining |-> remaining, ndef_bytes |-> ndef_bytes,
     remaining_data |-> remaining_data]

\* in_release, power_down, then return res
Postamble(res) == [Cur EXCEPT !.pc = "rel", !.result = res]

NextStage(st) == [Cur EXCEPT !.stage = st]

\* `if (sw1, sw2) != (0x90, 0x00): in_release; power_down; return failure`;
\* sw is the status word the error string carries (none in "READ CC failed"
\* and "READ NDEF length failed")
Rejected(error, sw) == Postamble(Fail(error, sw))

AfterReadVault(sw, payload) ==
    IF stage = "select"
    THEN IF sw # SW_OK THEN Rejected("SELECT rejected", sw) ELSE NextStage("read")
    ELSE \* "read": the status word of READ BINARY is not looked at
         Postamble(Ok(payload))

AfterWriteVault(sw, payload) ==
    IF stage = "select"
    THEN IF sw # SW_OK THEN Rejected("SELECT rejected", sw) ELSE NextStage("write")
    ELSE \* "write"
         Postamble(IF sw # SW_OK THEN Fail("WRITE failed", sw) ELSE Ok(<<>>))

AfterReadNdef(sw, payload) ==
    CASE stage = "sel_aid" ->
            IF sw # SW_OK THEN Rejected("SELECT NDEF AID failed", sw) ELSE NextStage("sel_cc")
      [] stage = "sel_cc" ->
            IF sw # SW_OK THEN Rejected("SELECT CC failed", sw) ELSE NextStage("read_cc")
      [] stage = "read_cc" ->
            IF sw # SW_OK \/ Len(payload) < 15 THEN Rejected("READ CC failed", <<>>)
            ELSE [Cur EXCEPT !.stage = "sel_ndef", !.cc_data = payload]
      [] stage = "sel_ndef" ->
            IF sw # SW_OK THEN Rejected("SELECT NDEF file failed", sw)
            ELSE NextStage("read_len")
      [] stage = "read_len" ->
            IF sw # SW_OK \/ Len(payload) < 2 THEN Rejected("READ NDEF length failed", <<>>)
            ELSE IF payload[1] * 256 + payload[2] = 0 THEN Postamble(Ok(<<>>))
            ELSE [Cur EXCEPT !.stage = "body", !.ndef_bytes = <<>>, !.offset = 2,
                             !.remaining = payload[1] * 256 + payload[2]]
      [] stage = "body" ->
            IF sw # SW_OK THEN \* break
                 Postamble(Ok(ndef_bytes))
            ELSE IF remaining - Len(payload) > 0
            THEN [Cur EXCEPT !.ndef_bytes = ndef_bytes \o payload,
                             !.offset = offset + Len(payload),
                             !.remaining = remaining - Len(payload)]
            ELSE [Cur EXCEPT !.pc = "rel", !.result = Ok(ndef_bytes \o payload),
                             !.ndef_bytes = ndef_bytes \o payload,
                             !.offset = offset + Len(payload),
                             !.remaining = remaining - Len(payload)]

PreflightError_None(cc) == ""

\* write_ndef_tag's checks on the CC before any write: write access (CC
\* byte 14) and max NDEF size (CC bytes 11-12); "" when both pass
PreflightError(cc) ==
    IF cc[15] # 0 THEN "Write access denied"
    ELSE IF 2 + Len(args.data) > cc[12] * 256 + cc[13] THEN "Message too large"
    ELSE ""

MoreToWrite_Never(data) == FALSE

\* write_ndef_tag: `while remaining_data:`
MoreToWrite(data) == data # <<>>

AfterWriteNdef(sw, payload) ==
    CASE stage = "sel_aid" ->
            IF sw # SW_OK THEN Rejected("SELECT NDEF AID failed", sw) ELSE NextStage("sel_cc")
      [] stage = "sel_cc" ->
            IF sw # SW_OK THEN Rejected("SELECT CC failed", sw) ELSE NextStage("read_cc")
      [] stage = "read_cc" ->
            IF sw # SW_OK \/ Len(payload) < 15 THEN Rejected("READ CC failed", <<>>)
            ELSE IF PreflightError(payload) # ""
            THEN [Cur EXCEPT !.pc = "rel", !.cc_data = payload,
                             !.result = Fail(PreflightError(payload), <<>>)]
            ELSE [Cur EXCEPT !.stage = "sel_ndef", !.cc_data = payload]
      [] stage = "sel_ndef" ->
            IF sw # SW_OK THEN Rejected("SELECT NDEF file failed", sw)
            ELSE NextStage("upd_zero")
      [] stage = "upd_zero" ->
            IF sw # SW_OK THEN Rejected("UPDATE BINARY (reset length) failed", sw)
            ELSE [Cur EXCEPT !.stage = IF MoreToWrite(args.data) THEN "upd_body" ELSE "upd_len",
                             !.offset = 2, !.remaining_data = args.data]
      [] stage = "upd_body" ->
            IF sw # SW_OK THEN Rejected("UPDATE BINARY (data) failed", sw)
            ELSE [Cur EXCEPT !.stage = IF MoreToWrite(Drop(remaining_data, MaxWrite))
                                       THEN "upd_body" ELSE "upd_len",
                             !.offset = offset + Len(Take(remaining_data, MaxWrite)),
                             !.remaining_data = Drop(remaining_data, MaxWrite)]
      [] stage = "upd_len" ->
            Postamble(IF sw # SW_OK THEN Fail("UPDATE BINARY (set length) failed", sw)
                      ELSE Ok(<<>>))

AfterExchange(sw, payload) ==
    CASE wf = "read_vault_tag" -> AfterReadVault(sw, payload)
      [] wf = "write_vault_tag" -> AfterWriteVault(sw, payload)
      [] wf = "read_ndef_tag" -> AfterReadNdef(sw, payload)
      [] wf = "write_ndef_tag" -> AfterWriteNdef(sw, payload)

\* what _exchange_apdu and its caller do with one InDataExchange response
\* `resp` for the APDU of the current stage
HandleResponse(resp) ==
    LET e == ExchangePass(resp, attempt)
        n == AfterExchange(e.sw, e.payload)
    IN  /\ prevResp' = IF e.out = "again" THEN resp ELSE None
        /\ CASE e.out = "raise" ->
               /\ Raise("RuntimeError")
               /\ UNCHANGED <<stage, attempt, cc_data, offset, remaining,
                              ndef_bytes, remaining_data, rejected>>
          [] e.out = "again" ->
               /\ attempt' = attempt + 1
               /\ UNCHANGED <<pc, stage, exc, result, serialOpen, cc_data, offset,
                              remaining, ndef_bytes, remaining_data, rejected>>
          [] e.out = "ret" ->
               /\ attempt' = 0
               /\ pc' = n.pc
               /\ stage' = n.stage
               /\ result' = n.result
               /\ cc_data' = n.cc_data
               /\ offset' = n.offset
               /\ remaining' = n.remaining
               /\ ndef_bytes' = n.ndef_bytes
               /\ remaining_data' = n.remaining_data
               /\ rejected' = IF e.sw # SW_OK THEN rejected \cup {e.sw} ELSE rejected
               /\ UNCHANGED <<exc, serialOpen>>

\* One pass of _exchange_apdu's loop for the APDU of the current stage: one
\* InDataExchange command, then what the caller does with the answer.
WfExchange ==
    /\ pc = "xchg"
    /\ stage \in {"body", "upd_body"} => bodyCmds < MaxBodyCmds
    /\ IF ApduRaises(StageApdu)
       THEN \* ValueError, caught by `except Exception`
            /\ Raise("ValueError")
            /\ UNCHANGED <<sent, stage, attempt, locals, rejected, prevResp>>
       ELSE
       /\ sent' = Append(sent, Cmd(CMD_InDataExchange, <<1>> \o StageApdu))
       /\ bodyCmds' = IF stage \in {"body", "upd_body"} THEN bodyCmds + 1 ELSE bodyCmds
       /\ \E resp \in IdeResponses : HandleResponse(resp)
    /\ UNCHANGED <<wf, args, samPhase, samTry, cardSeen, nbTg>>
    /\ UNCHANGED <<tvars, evars, cvars, hvars>>

WfRelease_NoPowerDown ==
    /\ pc = "rel"
    /\ sent' = Append(sent, Cmd(CMD_InRelease, <<0>>))
    /\ pc' = "done"
    /\ UNCHANGED <<wf, args, serialOpen, samPhase, samTry, stage, attempt, cardSeen, nbTg,
                   locals, exc, result>>
    /\ UNCHANGED <<rejected, prevResp>>
    /\ UNCHANGED <<tvars, evars, cvars, hvars>>

\* in_release (the response is not looked at)
WfRelease ==
    /\ pc = "rel"
    /\ sent' = Append(sent, Cmd(CMD_InRelease, <<0>>))
    /\ pc' = "pd"
    /\ UNCHANGED <<wf, args, serialOpen, samPhase, samTry, stage, attempt, cardSeen, nbTg,
                   locals, exc, result>>
    /\ UNCHANGED <<rejected, prevResp>>
    /\ UNCHANGED <<tvars, evars, cvars, hvars>>

\* power_down, after which the workflow returns `result`
WfPowerDown ==
    /\ pc = "pd"
    /\ sent' = Append(sent, Cmd(CMD_PowerDown, <<240>>))
    /\ pc' = "done"
    /\ UNCHANGED <<wf, args, serialOpen, samPhase, samTry, stage, attempt, cardSeen, nbTg,
                   locals, exc, result>>
    /\ UNCHANGED <<rejected, prevResp>>
    /\ UNCHANGED <<tvars, evars, cvars, hvars>>

\* the port fails under a command (serial.write or serial.read raises
\* SerialException): the workflow closes the port and returns
WfSerialError ==
    /\ pc \in {"wakeup", "sam", "sam_reset", "fw", "rf1", "rf2", "inlist", "xchg", "rel", "pd"}
    /\ Raise("SerialException")
    /\ UNCHANGED <<wf, args, sent, samPhase, samTry, stage, attempt, cardSeen, nbTg, locals>>
    /\ UNCHANGED <<rejected, prevResp>>
    /\ UNCHANGED <<tvars, evars, cvars, hvars>>

(***************************************************************************)
(* The body loops of read_ndef_tag (src/pn532.py:789-805) and              *)
(* write_ndef_tag (947-962) from their first iteration on.  An iteration   *)
(* is two steps, the write of the InDataExchange frame and the return of   *)
(* _exchange_apdu's pass; the log `sent` and the counter bodyCmds are not  *)
(* kept, so that a loop that makes no progress comes back to the same      *)
(* state.                                                                  *)
(***************************************************************************)
\* the NDEF message lengths READ_LEN gave (0 returns before the loop)
LoopLengths == {1, 60, 130}

\* the workflow has reached its body loop: read_ndef_tag after line 793,
\* write_ndef_tag after line 951, the message non-empty and the CC past the
\* pre-flight checks
LInit ==
    /\ wf \in {"read_ndef_tag", "write_ndef_tag"}
    /\ args \in {a \in ArgsOf(wf) : wf = "write_ndef_tag" => a.data # <<>>}
    /\ pc = "xchg"
    /\ serialOpen = TRUE
    /\ sent = <<>>
    /\ samPhase = 1
    /\ samTry = 0
    /\ stage = IF wf = "read_ndef_tag" THEN "body" ELSE "upd_body"
    /\ attempt = 0
    /\ cc_data \in {c \in CCFiles : wf = "write_ndef_tag" => PreflightError(c) = ""}
    /\ offset = 2
    /\ remaining \in IF wf = "read_ndef_tag" THEN LoopLengths ELSE {0}
    /\ ndef_bytes = <<>>
    /\ remaining_data = args.data
    /\ cardSeen = TRUE
    /\ nbTg = 1
    /\ bodyCmds = 0
    /\ exc = "none"
    /\ result = NoResult
    /\ rejected = {}
    /\ prevResp = None

\* the loop condition holds and in_data_exchange writes the frame of the
\* next READ BINARY or UPDATE BINARY
LoopSend ==
    /\ pc = "xchg"
    /\ stage \in {"body", "upd_body"}
    /\ IF ApduRaises(StageApdu)
       THEN /\ Raise("ValueError")
       ELSE /\ pc' = "resp"
            /\ UNCHANGED <<exc, result, serialOpen>>
    /\ UNCHANGED <<wf, args, sent, samPhase, samTry, stage, attempt, cardSeen, nbTg,
                   locals, rejected, prevResp>>
    /\ UNCHANGED <<tvars, evars, cvars, hvars>>

\* in_data_exchange returns: the rest of _exchange_apdu's pass and of the
\* loop body
LoopAnswer ==
    /\ pc = "resp"
    /\ \E resp \in IdeResponses :
          LET e == ExchangePass(resp, attempt)
              n == AfterExchange(e.sw, e.payload)
          IN  /\ prevResp' = IF e.out = "again" THEN resp ELSE None
              /\ CASE e.out = "raise" ->
                     /\ Raise("RuntimeError")
                     /\ UNCHANGED <<stage, attempt, cc_data, offset, remaining,
                                    ndef_bytes, remaining_data, rejected>>
                [] e.out = "again" ->
                     /\ attempt' = attempt + 1
                     /\ pc' = "xchg"
                     /\ UNCHANGED <<stage, exc, result, serialOpen, cc_data, offset,
                                    remaining, ndef_bytes, remaining_data, rejected>>
                [] e.out = "ret" ->
                     /\ attempt' = 0
                     /\ pc' = IF n.pc = "resp" THEN "xchg" ELSE n.pc
                     /\ stage' = n.stage
                     /\ result' = n.result
                     /\ cc_data' = n.cc_data
                     /\ offset' = n.offset
                     /\ remaining' = n.remaining
                     /\ ndef_bytes' = n.ndef_bytes
                     /\ remaining_data' = n.remaining_data
                     /\ rejected' = IF e.sw # SW_OK THEN rejected \cup {e.sw} ELSE rejected
                     /\ UNCHANGED <<exc, serialOpen>>
    /\ UNCHANGED <<wf, args, sent, samPhase, samTry, cardSeen, nbTg, bodyCmds>>
    /\ UNCHANGED <<tvars, evars, cvars, hvars>>

Next ==
    \/ WfEnsureOpen
    \/ WfWakeup
    \/ SamAttempt
    \/ SamHardReset
    \/ SamReconnect
    \/ WfFirmware
    \/ WfRfConfig
    \/ WfInList
    \/ WfExchange
    \/ WfRelease
    \/ WfPowerDown
    \/ WfSerialError

(***************************************************************************)
(* VaultTagEmulator: handle_apdu as a function of the APDU, _selected and  *)
(* _buffer, giving the R-APDU and the new _selected and _buffer.           *)
(***************************************************************************)
\* VaultTagEmulator.BUFFER_SIZE, src/pn532.py:1181
BUFFER_SIZE == 256

\* __init__: a zeroed buffer overwritten with initial_data[:BUFFER_SIZE]
VaultInitBuffer(initial_data) ==
    [i \in 1..BUFFER_SIZE |-> IF i <= Len(initial_data) THEN initial_data[i] ELSE 0]

\* make_test_data of src/test_emu_for_pro2.py: 0x00..0xFF repeating
MakeTestData(size) == [i \in 1..size |-> (i - 1) % 256]

VaultReply(r, sel, buf) == [r |-> r, sel |-> sel, buf |-> buf]

VaultHandleSelect_AnyAid(apdu, sel, buf) ==
    IF Len(apdu) < 5 THEN VaultReply(SW_NOT_FOUND, sel, buf)
    ELSE IF apdu[3] = 4 THEN VaultReply(SW_OK, TRUE, buf)
    ELSE VaultReply(SW_NOT_FOUND, sel, buf)

VaultHandleSelect(apdu, sel, buf) ==
    IF Len(apdu) < 5 THEN VaultReply(SW_NOT_FOUND, sel, buf)
    ELSE IF apdu[3] = 4 /\ Slice(apdu, 5, 5 + apdu[5]) = VAULT_AID
    THEN VaultReply(SW_OK, TRUE, buf)
    ELSE VaultReply(SW_NOT_FOUND, sel, buf)

VaultHandleRead_FromZero(apdu, sel, buf) ==
    IF ~sel THEN VaultReply(SW_NOT_FOUND, sel, buf)
    ELSE VaultReply(Slice(buf, 0, IF Len(apdu) > 4 THEN apdu[5] ELSE 0) \o SW_OK, sel, buf)

VaultHandleRead(apdu, sel, buf) ==
    IF ~sel THEN VaultReply(SW_NOT_FOUND, sel, buf)
    ELSE
    LET off == apdu[4]
        le == IF Len(apdu) > 4 THEN apdu[5] ELSE 0
    IN  IF off >= BUFFER_SIZE THEN VaultReply(SW_NOT_FOUND, sel, buf)
        ELSE VaultReply(Slice(buf, off, off + le) \o SW_OK, sel, buf)

VaultHandleWrite_Unbounded(apdu, sel, buf) ==
    IF ~sel THEN VaultReply(SW_NOT_FOUND, sel, buf)
    ELSE IF Len(apdu) < 5 THEN VaultReply(<<103, 0>>, sel, buf)
    ELSE
    LET off == apdu[4]
        data == Slice(apdu, 5, 5 + apdu[5])
    IN  VaultReply(SW_OK, sel,
                   [i \in 1..BUFFER_SIZE |->
                       IF i > off /\ i <= off + Len(data) THEN data[i - off]
                       ELSE buf[i]])

\* a WRITE that zeroes the rest of the buffer
VaultHandleWrite_Clears(apdu, sel, buf) ==
    IF ~sel \/ Len(apdu) < 5 THEN VaultReply(SW_NOT_FOUND, sel, buf)
    ELSE
    LET off == apdu[4]
        data == Slice(apdu, 5, 5 + apdu[5])
    IN  IF off + Len(data) > BUFFER_SIZE THEN VaultReply(SW_NOT_FOUND, sel, buf)
        ELSE VaultReply(SW_OK, sel,
                        [i \in 1..BUFFER_SIZE |->
                            IF i > off /\ i <= off + Len(data) THEN data[i - off]
                            ELSE 0])

VaultHandleWrite(apdu, sel, buf) ==
    IF ~sel THEN VaultReply(SW_NOT_FOUND, sel, buf)
    ELSE IF Len(apdu) < 5 THEN VaultReply(<<103, 0>>, sel, buf)
    ELSE
    LET off == apdu[4]
        data == Slice(apdu, 5, 5 + apdu[5])
    IN  IF off + Len(data) > BUFFER_SIZE THEN VaultReply(SW_NOT_FOUND, sel, buf)
        ELSE VaultReply(SW_OK, sel,
                        [i \in 1..BUFFER_SIZE |->
                            IF i > off /\ i <= off + Len(data) THEN data[i - off]
                            ELSE buf[i]])

\* a dispatcher that drops the selection on an APDU it does not know
VaultHandleApdu_Deselects(apdu, sel, buf) ==
    IF Len(apdu) < 4 THEN VaultReply(<<109, 0>>, FALSE, buf)
    ELSE IF apdu[2] = 164 THEN VaultHandleSelect(apdu, sel, buf)
    ELSE IF apdu[2] = 176 THEN VaultHandleRead(apdu, sel, buf)
    ELSE IF apdu[2] = 208 THEN VaultHandleWrite(apdu, sel, buf)
    ELSE VaultReply(<<109, 0>>, FALSE, buf)

VaultHandleApdu(apdu, sel, buf) ==
    IF Len(apdu) < 4 THEN VaultReply(<<109, 0>>, sel, buf)
    ELSE IF apdu[2] = 164 THEN VaultHandleSelect(apdu, sel, buf)
    ELSE IF apdu[2] = 176 THEN VaultHandleRead(apdu, sel, buf)
    ELSE IF apdu[2] = 208 THEN VaultHandleWrite(apdu, sel, buf)
    ELSE VaultReply(<<109, 0>>, sel, buf)


(***************************************************************************)
(* Type4TagEmulator: a CC file and an NDEF file, SELECT and READ BINARY.   *)
(* _selected_file is modelled by the name of the file it refers to.        *)
(***************************************************************************)
\* _ndef_file: 2-byte big-endian length, then the message
T4NdefFile(msg) == PackH(Len(msg)) \o msg

\* _cc_file: MLe 59, MLc 52, NDEF file E104, max size len(_ndef_file),
\* read access 00, write access FF
T4CcFile(msg) ==
    <<0, 15, 32, 0, 59, 0, 52, 4, 6, 225, 4>> \o PackH(Len(T4NdefFile(msg))) \o <<0, 255>>

T4SelectedFile(file, msg) == IF file = "cc" THEN T4CcFile(msg) ELSE T4NdefFile(msg)

T4Reply(r, file) == [r |-> r, file |-> file]

\* a SELECT by AID that selects the NDEF file on the side
T4HandleSelect_AidSelects(apdu, file, msg) ==
    IF Len(apdu) >= 5 /\ apdu[3] = 4 THEN T4Reply(SW_OK, "ndef")
    ELSE T4Reply(SW_NOT_FOUND, file)

T4HandleSelect(apdu, file, msg) ==
    IF Len(apdu) < 5 THEN T4Reply(SW_NOT_FOUND, file)
    ELSE
    LET p1 == apdu[3]
        data == Slice(apdu, 5, 5 + apdu[5])
    IN  IF p1 = 4
        THEN IF data = NDEF_AID THEN T4Reply(SW_OK, file) ELSE T4Reply(SW_NOT_FOUND, file)
        ELSE IF p1 = 0 /\ Len(data) = 2
        THEN IF data = <<225, 3>> THEN T4Reply(SW_OK, "cc")
             ELSE IF data = <<225, 4>> THEN T4Reply(SW_OK, "ndef")
             ELSE T4Reply(SW_NOT_FOUND, file)
        ELSE T4Reply(SW_NOT_FOUND, file)

T4HandleReadBinary_WholeLe(apdu, file, msg) ==
    LET off == apdu[3] * 256 + apdu[4]
        le == IF Len(apdu) > 4 THEN apdu[5] ELSE 0
        f == T4SelectedFile(file, msg)
    IN  IF file = "none" \/ off > Len(f) THEN T4Reply(SW_NOT_FOUND, file)
        ELSE T4Reply([i \in 1..le |-> IF off + i <= Len(f) THEN f[off + i] ELSE 0]
                     \o SW_OK, file)

T4HandleReadBinary(apdu, file, msg) ==
    IF file = "none" THEN T4Reply(SW_NOT_FOUND, file)
    ELSE
    LET off == apdu[3] * 256 + apdu[4]
        le == IF Len(apdu) > 4 THEN apdu[5] ELSE 0
        f == T4SelectedFile(file, msg)
    IN  IF off > Len(f) THEN T4Reply(SW_NOT_FOUND, file)
        ELSE T4Reply(Slice(f, off, off + le) \o SW_OK, file)

\* a handler that carries out UPDATE BINARY on the NDEF message
T4HandleApdu_Writable(apdu, file, msg) ==
    IF Len(apdu) >= 4 /\ apdu[2] = 214
    THEN [r |-> SW_OK, file |-> file, msg |-> msg \o Drop(apdu, 5)]
    ELSE [r |-> <<109, 0>>, file |-> file, msg |-> msg]

\* handle_apdu: the R-APDU, the file selected afterwards, and the message
\* the files are made of (no branch assigns _ndef_msg, _ndef_file or
\* _cc_file)
T4HandleApdu(apdu, file, msg) ==
    LET h == IF Len(apdu) < 4 THEN T4Reply(<<109, 0>>, file)
             ELSE IF apdu[2] = 164 THEN T4HandleSelect(apdu, file, msg)
             ELSE IF apdu[2] = 176 THEN T4HandleReadBinary(apdu, file, msg)
             ELSE IF apdu[2] = 214 THEN T4Reply(SW_NOT_FOUND, file)
             ELSE T4Reply(<<109, 0>>, file)
    IN  [r |-> h.r, file |-> h.file, msg |-> msg]

(***************************************************************************)
(* The emulators on their own: a fresh emulator handles APDUs one after    *)
(* another, as emulate_tag hands them to handle_apdu.                      *)
(***************************************************************************)
\* cap on the number of APDUs one emulator handles
MaxApdus == 4

\* the data field of a C-APDU: the Lc bytes after the 5-byte header (fewer
\* when the APDU ends before)
DataField(apdu) == Slice(apdu, 5, 5 + apdu[5])

\* a SELECT by AID (INS A4, P1 04) whose data field is `aid`
IsSelectByAid(apdu, aid) ==
    Len(apdu) >= 5 /\ apdu[2] = 164 /\ apdu[3] = 4 /\ DataField(apdu) = aid

\* a Vault WRITE(P2 = off, Lc = len(d), d)
IsWrite(apdu) == Len(apdu) >= 5 /\ apdu[2] = 208 /\ Len(apdu) = 5 + apdu[5]

\* a Vault READ BINARY(P2 = off, Le)
IsRead(apdu) == Len(apdu) = 5 /\ apdu[2] = 176

VaultWrite(off, d) == <<0, 208, 0, off, Len(d)>> \o d

VaultRead(off, le) == <<0, 176, 0, off, le>>

\* the C-APDUs given to a VaultTagEmulator
VaultApdus ==
    {<<0, 164, 4, 0, 6>> \o VAULT_AID \o <<0>>,        \* SELECT by AID
     <<0, 164, 4, 0, 6, 240, 1, 2, 3, 4, 6>>,          \* another AID
     <<0, 164, 0, 0, 6>> \o VAULT_AID,                 \* P1 = 00
     <<0, 164, 4, 0, 6, 240, 1, 2, 3, 4>>,             \* the AID cut short
     VaultWrite(250, <<65, 66, 67, 68, 69>>),
     VaultWrite(253, <<1, 2, 3, 4, 5>>),               \* 253 + 5 > 256
     VaultWrite(252, <<7, 8>>),
     VaultWrite(255, <<9>>),
     VaultWrite(0, <<>>),
     VaultWrite(1, Fill(255, 90)),                     \* 1 + 255 = 256
     <<0, 208, 0, 254, 1, 5, 6, 7>>,                   \* Lc below the data sent
     <<0, 208, 0, 255, 5, 9>>,                         \* Lc above the data sent
     <<0, 208, 0, 0>>,                                 \* no Lc
     VaultRead(250, 5),
     VaultRead(252, 2),
     VaultRead(255, 1),
     VaultRead(254, 4),                                \* past the end
     <<0, 176, 0, 0>>,                                 \* no Le
     <<0, 255, 0, 0>>,                                 \* unknown INS
     <<0, 176>>,                                       \* too short
     <<>>}

\* the C-APDUs given to a Type4TagEmulator
T4Apdus ==
    {<<0, 164, 4, 0, 7>> \o NDEF_AID \o <<0>>,         \* SELECT by AID
     <<0, 164, 4, 0, 6>> \o VAULT_AID \o <<0>>,        \* another AID
     <<0, 164, 0, 12, 2, 225, 3>>,                     \* SELECT CC
     <<0, 164, 0, 12, 2, 225, 4>>,                     \* SELECT NDEF file
     <<0, 164, 0, 12, 2, 225, 5>>,                     \* unknown file
     <<0, 164, 0, 12>>,                                \* no Lc
     <<0, 176, 0, 0, 15>>,
     <<0, 176, 0, 0, 2>>,
     <<0, 176, 0, 2, 59>>,
     <<0, 176, 1, 0, 5>>,                              \* offset 256
     <<0, 176, 0, 6, 255>>,                            \* Le 255
     <<0, 176, 0, 0>>,                                 \* no Le
     <<0, 214, 0, 0, 2, 0, 0>>,                        \* UPDATE BINARY
     <<0, 214, 0, 2, 1, 7>>,
     <<0, 214, 0, 0>>,                                 \* UPDATE BINARY, no data
     <<0, 202, 0, 0>>,                                 \* unknown INS
     <<0, 176>>,                                       \* too short
     <<>>}

\* the NDEF messages a Type4TagEmulator is built with
T4Messages ==
    {<<>>, <<209, 1, 1, 84>>, Fill(70, 170), <<8, 1, 2>>, Fill(59, 170) \o <<10, 1, 2>>}

\* the initial_data a VaultTagEmulator is built with
VaultInitialData == {<<>>, MakeTestData(2048)}

NoShadow == [i \in 1..BUFFER_SIZE |-> -1]

\* VaultTagEmulator(initial_data), Type4TagEmulator(msg)
FreshCard ==
    /\ c_kind \in {"vault", "type4"}
    /\ c_selected = FALSE
    /\ c_buffer \in IF c_kind = "vault"
                    THEN {VaultInitBuffer(d) : d \in VaultInitialData} ELSE {<<>>}
    /\ c_file = "none"
    /\ c_msg \in IF c_kind = "type4" THEN T4Messages ELSE {<<>>}
    /\ c_apdu = <<>>
    /\ c_reply = <<>>
    /\ c_count = 0
    /\ c_alive = TRUE
    /\ c_aid = [sent |-> FALSE, ok |-> FALSE]
    /\ c_before = [selected |-> FALSE, buffer |-> c_buffer]
    /\ c_prev = <<>>
    /\ c_shadow = IF c_kind = "vault" THEN NoShadow ELSE <<>>

\* history kept beside handle_apdu: what the APDU was, what the state was
\* before it, whether a SELECT by the emulator's AID has been seen, and
\* c_shadow, the bytes that the WRITEs addressed inside the buffer to a
\* selected emulator have put at each offset (-1: none; a WRITE that is not
\* of the form WRITE(off, Lc = len(d), d) makes all of it unknown)
Remember(apdu, reply, aid) ==
    /\ c_apdu' = apdu
    /\ c_reply' = reply
    /\ c_count' = c_count + 1
    /\ c_prev' = c_apdu
    /\ c_before' = [selected |-> c_selected, buffer |-> c_buffer]
    /\ c_aid' = [sent |-> c_aid.sent \/ IsSelectByAid(apdu, aid),
                 ok |-> c_aid.ok \/ (IsSelectByAid(apdu, aid) /\ reply = SW_OK)]
    /\ c_shadow' =
          IF c_kind # "vault" \/ ~c_selected \/ Len(apdu) < 4 \/ apdu[2] # 208
          THEN c_shadow
          ELSE IF ~IsWrite(apdu) THEN NoShadow
          ELSE IF apdu[4] + apdu[5] > BUFFER_SIZE THEN c_shadow
          ELSE [i \in 1..BUFFER_SIZE |->
                   IF i > apdu[4] /\ i <= apdu[4] + apdu[5]
                   THEN apdu[5 + i - apdu[4]] ELSE c_shadow[i]]

\* VaultTagEmulator.handle_apdu
VaultApdu ==
    /\ c_kind = "vault"
    /\ c_count < MaxApdus
    /\ \E apdu \in VaultApdus :
          LET h == VaultHandleApdu(apdu, c_selected, c_buffer)
          IN  /\ c_selected' = h.sel
              /\ c_buffer' = h.buf
              /\ Remember(apdu, h.r, VAULT_AID)
    /\ UNCHANGED <<c_kind, c_file, c_msg, c_alive, calls, results>>
    /\ UNCHANGED <<tvars, wvars, evars, hvars>>

\* Type4TagEmulator.handle_apdu
T4Apdu ==
    /\ c_kind = "type4"
    /\ c_count < MaxApdus
    /\ \E apdu \in T4Apdus :
          LET h == T4HandleApdu(apdu, c_file, c_msg)
          IN  /\ c_file' = h.file
              /\ c_msg' = h.msg
              /\ Remember(apdu, h.r, NDEF_AID)
    /\ UNCHANGED <<c_kind, c_selected, c_buffer, c_alive, calls, results>>
    /\ UNCHANGED <<tvars, wvars, evars, hvars>>


(***************************************************************************)
(* End to end: initiator workflows called one after another against a tag  *)
(* emulator that emulate_tag serves on a second PN532.  Each call is taken *)
(* up where InListPassiveTarget has activated the emulated card; every     *)
(* InDataExchange carries the C-APDU to handle_apdu and brings back the    *)
(* R-APDU that tg_set_data sent.                                           *)
(***************************************************************************)
Call1(w, a) == [wf |-> w, args |-> a]

ReadVault(off, n) == Call1("read_vault_tag", [offset |-> off, length |-> n, data |-> <<>>])

WriteVault(off, d) == Call1("write_vault_tag", [offset |-> off, length |-> 0, data |-> d])

ReadNdef == Call1("read_ndef_tag", NoArgs)

\* the call sequences made against a VaultTagEmulator
VaultScripts ==
    {<<WriteVault(250, <<65, 66, 67, 68, 69>>), ReadVault(250, 5)>>,
     <<WriteVault(253, <<0, 0, 0, 0, 0>>)>>,
     <<WriteVault(0, <<>>), ReadVault(0, 0)>>,
     <<WriteVault(0, Msg(200)), ReadVault(0, 200)>>,
     <<WriteVault(0, <<8, 65, 66>>), ReadVault(0, 3)>>,
     <<WriteVault(0, Msg(248))>>,
     <<WriteVault(44, <<9, 9>>), WriteVault(0, <<85, 85>>), ReadVault(44, 2)>>,
     <<WriteVault(300, <<88, 89>>), WriteVault(0, Fill(128, 85)), ReadVault(300, 2)>>,
     <<WriteVault(256, <<1>>)>>,
     <<ReadVault(0, 255), ReadVault(0, 4)>>}

\* the trace of a preamble in which every command was answered and
\* InListPassiveTarget found the card
ActivatedTrace ==
    <<Event("open")>> \o WakeupTrace \o
    <<Cmd(CMD_SAMConfiguration, <<1, 0>>), Cmd(CMD_RFConfiguration, <<5, 255, 1, 255>>),
      Cmd(CMD_RFConfiguration, <<2, 0, 11, 14>>), Cmd(CMD_InListPassiveTarget, <<1, 0>>)>>

\* a workflow call `c`, up to the activation of the card
Activated(c) ==
    /\ wf = c.wf
    /\ args = c.args
    /\ pc = "xchg"
    /\ serialOpen = TRUE
    /\ sent = ActivatedTrace
    /\ samPhase = 1
    /\ samTry = 0
    /\ stage = IF c.wf \in {"read_vault_tag", "write_vault_tag"} THEN "select" ELSE "sel_aid"
    /\ attempt = 0
    /\ cc_data = <<>>
    /\ offset = 0
    /\ remaining = 0
    /\ ndef_bytes = <<>>
    /\ remaining_data = <<>>
    /\ cardSeen = TRUE
    /\ nbTg = 1
    /\ bodyCmds = 0
    /\ exc = "none"
    /\ result = NoResult
    /\ rejected = {}
    /\ prevResp = None

CardInit ==
    /\ FreshCard
    /\ \E script \in IF c_kind = "vault" THEN VaultScripts ELSE {<<ReadNdef>>} :
          /\ calls = Tail(script)
          /\ Activated(Head(script))
    /\ results = <<>>

\* emulator.handle_apdu for the emulator in use
CardHandle(apdu) ==
    IF c_kind = "vault"
    THEN LET h == VaultHandleApdu(apdu, c_selected, c_buffer)
         IN  [r |-> h.r, sel |-> h.sel, buf |-> h.buf, file |-> c_file]
    ELSE LET h == T4HandleApdu(apdu, c_file, c_msg)
         IN  [r |-> h.r, sel |-> c_selected, buf |-> c_buffer, file |-> h.file]

\* D5 41 01: the initiator's PN532 got no answer from the target
IdeTimeout == Some(<<213, 65, 1>>)

\* One pass of _exchange_apdu with the emulator as the card.  While
\* emulate_tag runs, the C-APDU reaches handle_apdu and the R-APDU comes
\* back in D5 41 00; an R-APDU that tg_set_data cannot frame raises
\* ValueError in emulate_tag, which returns: from then on no answer comes.
CardExchange ==
    /\ pc = "xchg"
    /\ stage \in {"body", "upd_body"} => bodyCmds < MaxBodyCmds
    /\ IF ApduRaises(StageApdu)
       THEN /\ Raise("ValueError")
            /\ UNCHANGED <<sent, stage, attempt, locals, rejected, prevResp>>
            /\ UNCHANGED <<c_selected, c_buffer, c_file, c_apdu, c_reply, c_count, c_alive,
                           c_aid, c_before, c_prev, c_shadow>>
       ELSE
       /\ sent' = Append(sent, Cmd(CMD_InDataExchange, <<1>> \o StageApdu))
       /\ bodyCmds' = IF stage \in {"body", "upd_body"} THEN bodyCmds + 1 ELSE bodyCmds
       /\ IF ~c_alive
          THEN /\ HandleResponse(IdeTimeout)
               /\ UNCHANGED <<c_selected, c_buffer, c_file, c_apdu, c_reply, c_count,
                              c_alive, c_aid, c_before, c_prev, c_shadow>>
          ELSE LET h == CardHandle(StageApdu)
               IN  /\ c_selected' = h.sel
                   /\ c_buffer' = h.buf
                   /\ c_file' = h.file
                   /\ Remember(StageApdu, h.r,
                               IF c_kind = "vault" THEN VAULT_AID ELSE NDEF_AID)
                   /\ c_alive' = ~FrameRaises(h.r)
                   /\ HandleResponse(IF FrameRaises(h.r) THEN IdeTimeout
                                     ELSE Some(<<213, 65, 0>> \o h.r))
    /\ UNCHANGED <<wf, args, samPhase, samTry, cardSeen, nbTg>>
    /\ UNCHANGED <<c_kind, c_msg, calls, results>>
    /\ UNCHANGED <<tvars, evars, hvars>>

\* the call made so far with what it returned
Made == [wf |-> wf, args |-> args, result |-> result, exc |-> exc]

\* the workflow has returned: the next call of the script starts, against
\* the same emulator
CardNextCall ==
    /\ pc = "done"
    /\ calls # <<>>
    /\ results' = Append(results, Made)
    /\ calls' = Tail(calls)
    /\ wf' = Head(calls).wf
    /\ args' = Head(calls).args
    /\ pc' = "xchg"
    /\ sent' = ActivatedTrace
    /\ stage' = IF Head(calls).wf \in {"read_vault_tag", "write_vault_tag"}
                THEN "select" ELSE "sel_aid"
    /\ attempt' = 0
    /\ cc_data' = <<>>
    /\ offset' = 0
    /\ remaining' = 0
    /\ ndef_bytes' = <<>>
    /\ remaining_data' = <<>>
    /\ bodyCmds' = 0
    /\ exc' = "none"
    /\ result' = NoResult
    /\ rejected' = {}
    /\ prevResp' = None
    /\ UNCHANGED <<serialOpen, samPhase, samTry, cardSeen, nbTg>>
    /\ UNCHANGED <<c_kind, c_selected, c_buffer, c_file, c_msg, c_apdu, c_reply, c_count,
                   c_alive, c_aid, c_before, c_prev, c_shadow>>
    /\ UNCHANGED <<tvars, evars, hvars>>


(***************************************************************************)
(* Threads and the lock.  Every public method runs inside                  *)
(* `with self._lock:`; a thread that calls one waits until the lock is     *)
(* free.  The initiator workflows are seen here only as users of the port  *)
(* (a first and a last serial operation); Spec has their commands.         *)
(***************************************************************************)
\* cap on the length of the history variables lateCmds and afterStop
MaxHist == 3

\* emulate_tag: `if consecutive_timeouts >= 3`, src/pn532.py:1041
MAX_TIMEOUTS == 3

Threads == {"emu", "w1", "w2", "sp"}

\* the C-APDUs a reader sends: SELECT of the Vault AID, READ BINARY of 255
\* and of 4 bytes at offset 0, a WRITE of one byte, an unknown INS
EmuCApdus ==
    {<<0, 164, 4, 0, 6>> \o VAULT_AID \o <<0>>,
     <<0, 176, 0, 0, 255>>,
     <<0, 176, 0, 0, 4>>,
     <<0, 208, 0, 0, 1, 9>>,
     <<0, 255, 0, 0>>}

\* D5 8D Mode: activated by a reader, or the 2 s deadline passed
TgInitResponses == {None, Some(<<213, 141, 8>>)}

\* D5 87 Status DataIn: deadline passed, cut short, released by the
\* initiator (0x29), or a C-APDU
TgGetResponses ==
    {None, Some(<<213, 135>>), Some(<<213, 135, 41>>)}
    \cup {Some(<<213, 135, 0>> \o c) : c \in EmuCApdus}

\* D5 8F Status
TgSetResponses == {None, Some(<<213, 143, 0>>), Some(<<213, 143, 41>>)}

\* neither setup command has returned a response
NotConfigured == [sam |-> FALSE, params |-> FALSE]

EInit ==
    /\ lock = "free"
    /\ job \in {j \in [Threads -> Workflows \cup {"emulate_tag", "set_port"}] :
                  /\ j["emu"] = "emulate_tag"
                  /\ j["sp"] = "set_port"
                  /\ j["w1"] \in {"scan_type_a", "read_vault_tag", "write_vault_tag"}
                  /\ j["w2"] \in {"read_ndef_tag", "write_ndef_tag"}}
    /\ tpc = [t \in Threads |-> "idle"]
    /\ stop = FALSE
    /\ portOpen = FALSE
    /\ cto = 0
    /\ r_apdu = <<>>
    /\ emuSel = FALSE
    /\ emuBuf = VaultInitBuffer(MakeTestData(2048))
    /\ emuExc = "none"
    /\ flight = "no"
    /\ lateCmds = <<>>
    /\ afterStop = <<>>
    /\ silent = 0
    /\ emuCfg = NotConfigured

emuloop == <<cto, r_apdu, emuSel, emuBuf, emuExc>>

hist == <<flight, lateCmds, afterStop, silent, emuCfg>>

\* a slip: the lock is taken without waiting for it
LockFree_NoWait == TRUE

\* threading.Lock.acquire returns only when no thread holds the lock
LockFree == lock = "free"

\* a slip: `while True`
StopSeenOuter_Never == FALSE

\* `while not stop_event.is_set()`, the outer loop, src/pn532.py:1025
StopSeenOuter == stop

\* a slip: `while True`
StopSeenInner_Never == FALSE

\* `while not stop_event.is_set()`, the inner loop, src/pn532.py:1037
StopSeenInner == stop

\* the thread calls its method and arrives at `with self._lock:`
Call(t) ==
    /\ tpc[t] = "idle"
    /\ tpc' = [tpc EXCEPT ![t] = "wait"]
    /\ UNCHANGED <<lock, job, stop, portOpen, emuloop, hist>>
    /\ UNCHANGED <<tvars, wvars, cvars, hvars>>

\* self._lock.__enter__
Acquire(t) ==
    /\ tpc[t] = "wait"
    /\ LockFree
    /\ lock' = t
    /\ tpc' = [tpc EXCEPT ![t] = CASE job[t] = "emulate_tag" -> "setup"
                                  [] job[t] = "set_port" -> "close"
                                  [] OTHER -> "op1"]
    /\ UNCHANGED <<job, stop, portOpen, emuloop, hist>>
    /\ UNCHANGED <<tvars, wvars, cvars, hvars>>

\* self._lock.__exit__, on return and on exception alike
Release(t) ==
    /\ tpc[t] = "ret"
    /\ lock' = "free"
    /\ tpc' = [tpc EXCEPT ![t] = "done"]
    /\ UNCHANGED <<job, stop, portOpen, emuloop, hist>>
    /\ UNCHANGED <<tvars, wvars, cvars, hvars>>

\* an initiator workflow: its first serial operation (_ensure_open) and
\* its last one
WorkflowPortOp(t) ==
    /\ tpc[t] \in {"op1", "op2"}
    /\ portOpen' = TRUE
    /\ tpc' = [tpc EXCEPT ![t] = IF tpc[t] = "op1" THEN "op2" ELSE "ret"]
    /\ UNCHANGED <<lock, job, stop, emuloop, hist>>
    /\ UNCHANGED <<tvars, wvars, cvars, hvars>>

\* set_port: self._close()
SetPort(t) ==
    /\ tpc[t] = "close"
    /\ portOpen' = FALSE
    /\ tpc' = [tpc EXCEPT ![t] = "ret"]
    /\ UNCHANGED <<lock, job, stop, emuloop, hist>>
    /\ UNCHANGED <<tvars, wvars, cvars, hvars>>

\* some thread calls stop_event.set()
SetStop ==
    /\ ~stop
    /\ stop' = TRUE
    /\ flight' = IF tpc["emu"] \in {"initWait", "getWait", "setWait"} THEN "flying" ELSE flight
    /\ UNCHANGED <<lock, job, tpc, portOpen, emuloop, lateCmds, afterStop, silent, emuCfg>>
    /\ UNCHANGED <<tvars, wvars, cvars, hvars>>


(***************************************************************************)
(* emulate_tag.  A loop command is two steps, the write of its frame and   *)
(* the return of _send_command, so that stop_event can be set while the    *)
(* command is in flight.                                                   *)
(***************************************************************************)
\* history: a loop command is started
StartCmd(c) ==
    /\ lateCmds' = IF flight = "landed" /\ Len(lateCmds) < MaxHist
                   THEN Append(lateCmds, c) ELSE lateCmds
    /\ afterStop' = IF stop /\ Len(afterStop) < MaxHist
                    THEN Append(afterStop, c) ELSE afterStop
    /\ silent' = IF c = CMD_TgInitAsTarget THEN 0 ELSE silent
    /\ UNCHANGED <<flight, emuCfg>>

\* a loop that gives up two timeouts later
TimeoutsOver_Late(n) == n >= MAX_TIMEOUTS + 2

\* `if consecutive_timeouts >= 3: break`
TimeoutsOver(n) == n >= MAX_TIMEOUTS

\* history: the loop command in flight returns
Landed ==
    /\ flight' = IF flight = "flying" THEN "landed" ELSE flight
    /\ UNCHANGED <<lateCmds, afterStop, emuCfg>>

EmuGoto(p) == tpc' = [tpc EXCEPT !["emu"] = p]

\* _ensure_open, _wakeup, sam_configuration, set_parameters(0x24): each of
\* the two commands returns a response or None (sam_configuration after
\* all its recovery steps), and neither result is looked at
EmuSetup ==
    /\ tpc["emu"] = "setup"
    /\ portOpen' = TRUE
    /\ \E sam \in BOOLEAN, params \in BOOLEAN :
          emuCfg' = [sam |-> sam, params |-> params]
    /\ EmuGoto("outer")
    /\ UNCHANGED <<lock, job, stop, emuloop, flight, lateCmds, afterStop, silent>>
    /\ UNCHANGED <<tvars, wvars, cvars, hvars>>

\* `while not stop_event.is_set():` of the outer loop
EmuOuterCheck ==
    /\ tpc["emu"] = "outer"
    /\ EmuGoto(IF StopSeenOuter THEN "ret" ELSE "initSend")
    /\ UNCHANGED <<lock, job, stop, portOpen, emuloop, hist>>
    /\ UNCHANGED <<tvars, wvars, cvars, hvars>>

\* tg_init_as_target writes its frame
EmuSendInit ==
    /\ tpc["emu"] = "initSend"
    /\ StartCmd(CMD_TgInitAsTarget)
    /\ EmuGoto("initWait")
    /\ UNCHANGED <<lock, job, stop, portOpen, emuloop>>
    /\ UNCHANGED <<tvars, wvars, cvars, hvars>>

\* tg_init_as_target returns
EmuInitReturn ==
    /\ tpc["emu"] = "initWait"
    /\ Landed
    /\ \E resp \in TgInitResponses :
          IF ~resp.some
          THEN /\ EmuGoto("outer")
               /\ UNCHANGED cto
          ELSE /\ EmuGoto("inner")
               /\ cto' = 0
    /\ UNCHANGED <<lock, job, stop, portOpen, r_apdu, emuSel, emuBuf, emuExc, silent>>
    /\ UNCHANGED <<tvars, wvars, cvars, hvars>>

\* `while not stop_event.is_set():` of the inner loop
EmuInnerCheck ==
    /\ tpc["emu"] = "inner"
    /\ EmuGoto(IF StopSeenInner THEN "outer" ELSE "getSend")
    /\ UNCHANGED <<lock, job, stop, portOpen, emuloop, hist>>
    /\ UNCHANGED <<tvars, wvars, cvars, hvars>>

\* tg_get_data writes its frame
EmuSendGet ==
    /\ tpc["emu"] = "getSend"
    /\ StartCmd(CMD_TgGetData)
    /\ EmuGoto("getWait")
    /\ UNCHANGED <<lock, job, stop, portOpen, emuloop>>
    /\ UNCHANGED <<tvars, wvars, cvars, hvars>>

\* tg_get_data returns; a C-APDU goes through emulator.handle_apdu
EmuGetReturn ==
    /\ tpc["emu"] = "getWait"
    /\ Landed
    /\ \E resp \in TgGetResponses :
          IF ~resp.some
          THEN /\ cto' = cto + 1
               /\ silent' = silent + 1
               /\ EmuGoto(IF TimeoutsOver(cto + 1) THEN "outer" ELSE "inner")
               /\ UNCHANGED <<r_apdu, emuSel, emuBuf>>
          ELSE IF Len(resp.v) < 3 \/ resp.v[3] # 0
          THEN /\ cto' = 0
               /\ silent' = 0
               /\ EmuGoto("outer")
               /\ UNCHANGED <<r_apdu, emuSel, emuBuf>>
          ELSE LET h == VaultHandleApdu(Drop(resp.v, 3), emuSel, emuBuf)
               IN  /\ cto' = 0
                   /\ silent' = 0
                   /\ r_apdu' = h.r
                   /\ emuSel' = h.sel
                   /\ emuBuf' = h.buf
                   /\ EmuGoto("setSend")
    /\ UNCHANGED <<lock, job, stop, portOpen, emuExc>>
    /\ UNCHANGED <<tvars, wvars, cvars, hvars>>

\* tg_set_data(r_apdu): _build_frame, then the write of the frame.  A frame
\* that cannot be built raises ValueError, which `except Exception` logs.
EmuSendSet ==
    /\ tpc["emu"] = "setSend"
    /\ IF FrameRaises(r_apdu)
       THEN /\ emuExc' = "ValueError"
            /\ EmuGoto("ret")
            /\ UNCHANGED hist
       ELSE /\ StartCmd(CMD_TgSetData)
            /\ EmuGoto("setWait")
            /\ UNCHANGED emuExc
    /\ UNCHANGED <<lock, job, stop, portOpen, cto, r_apdu, emuSel, emuBuf>>
    /\ UNCHANGED <<tvars, wvars, cvars, hvars>>

\* tg_set_data returns (r_apdu is dead from here on and is cleared)
EmuSetReturn ==
    /\ tpc["emu"] = "setWait"
    /\ Landed
    /\ \E resp \in TgSetResponses :
          IF ~resp.some \/ (Len(resp.v) >= 3 /\ resp.v[3] # 0)
          THEN EmuGoto("outer")
          ELSE EmuGoto("inner")
    /\ r_apdu' = <<>>
    /\ UNCHANGED <<lock, job, stop, portOpen, cto, emuSel, emuBuf, emuExc, silent>>
    /\ UNCHANGED <<tvars, wvars, cvars, hvars>>

\* the port fails under emulate_tag: `except serial.SerialException`
\* closes it and the method returns
EmuSerialError ==
    /\ tpc["emu"] \in {"setup", "initSend", "initWait", "getSend", "getWait", "setSend", "setWait"}
    /\ portOpen' = FALSE
    /\ emuExc' = "SerialException"
    /\ EmuGoto("ret")
    /\ UNCHANGED <<lock, job, stop, cto, r_apdu, emuSel, emuBuf, hist>>
    /\ UNCHANGED <<tvars, wvars, cvars, hvars>>

EmuStep ==
    \/ EmuSetup
    \/ EmuOuterCheck
    \/ EmuSendInit
    \/ EmuInitReturn
    \/ EmuInnerCheck
    \/ EmuSendGet
    \/ EmuGetReturn
    \/ EmuSendSet
    \/ EmuSetReturn

\* what the code of a thread does once its method is called
ThreadStep(t) ==
    \/ Acquire(t)
    \/ Release(t)
    \/ WorkflowPortOp(t)
    \/ SetPort(t)

(***************************************************************************)
(* _build_frame and _exchange_apdu called on their own, on inputs drawn    *)
(* from bounded sets.                                                      *)
(***************************************************************************)
\* command codes: the driver's, and ones that make TFI + cmd wrap (0x2C)
FrameCmds == {0, CMD_GetFirmwareVersion, CMD_SAMConfiguration, 44, CMD_InDataExchange,
              CMD_TgGetData, CMD_TgSetData, 255}

\* params of every kind of length: none, short, and around the limit of
\* 253 bytes that LEN <= 255 sets
FrameParams ==
    {<<>>, <<0>>, <<1>>, <<44>>, <<255>>, <<255, 255>>, <<1, 2, 3>>, Fill(52, 170),
     Fill(252, 255), Fill(253, 0), Fill(253, 1), Fill(253, 255), Fill(254, 0),
     Fill(300, 1)}

\* one call _build_frame(cmd, params)
BuildFrameCall ==
    /\ \E cmd \in FrameCmds :
       \E params \in FrameParams :
          /\ f_cmd' = cmd
          /\ f_params' = params
          /\ f_raised' = FrameRaises(params)
          /\ f_frame' = IF FrameRaises(params) THEN <<>> ELSE BuildFrame(cmd, params)
    /\ UNCHANGED <<x_attempt, x_resp, x_ret, x_card>>
    /\ UNCHANGED <<tvars, wvars, evars, cvars>>

\* _exchange_apdu has not been called yet
NotCalled == [out |-> "none", sw |-> <<>>, payload |-> <<>>]

\* first bytes b of a response with (b & 0xE8) == 0x08, and others
LeakPcbs == {8, 9, 10, 11, 15, 24, 31}

XPayloads == {<<>>, <<1>>, <<8, 0>>, <<1, 2, 3>>, <<2, 0, 144, 0>>, Fill(59, 170)}

\* InDataExchange responses: none, cut short, an error status, status 0
\* with nothing or one byte, a card answer p SW, and the same behind a
\* leaked PCB and CID byte
XchgResponses ==
    {None, Some(<<213, 65>>), Some(<<213, 65, 1>>), Some(<<213, 65, 0>>),
     Some(<<213, 65, 0, 144>>), Some(<<213, 65, 0, 8, 0, 144>>)}
    \cup {Some(<<213, 65, 0>> \o p \o sw) : p \in XPayloads, sw \in {SW_OK, SW_NOT_FOUND}}
    \cup {Some(<<213, 65, 0, b, cid>> \o p \o SW_OK) :
             b \in LeakPcbs, cid \in {0, 1}, p \in XPayloads}

\* the R-APDUs a card can have produced when InDataExchange returns resp:
\* with status 0 the bytes after D5 41 00 are the R-APDU, or, when the chip
\* leaked the I-block header, a PCB with the CID bit, the CID and the R-APDU
CardProduced(resp) ==
    IF ~resp.some \/ Len(resp.v) < 3 \/ resp.v[3] # 0
    THEN {None}
    ELSE {Some(Drop(resp.v, 3))}
         \cup (IF Len(resp.v) >= 5 /\ resp.v[4] \in (8..15) \cup (24..31)
               THEN {Some(Drop(resp.v, 5))} ELSE {})

\* one pass of _exchange_apdu's loop; after a return or a raise the next
\* pass is the first of a new call
XchgPass ==
    /\ \E resp \in XchgResponses :
          LET att == IF x_ret.out = "again" THEN x_attempt ELSE 0
              e == ExchangePass(resp, att)
          IN  /\ x_resp' = resp
              /\ x_card' \in CardProduced(resp)
              /\ x_ret' = e
              /\ x_attempt' = IF e.out = "again" THEN att + 1 ELSE att
    /\ UNCHANGED <<f_cmd, f_params, f_frame, f_raised>>
    /\ UNCHANGED <<tvars, wvars, evars, cvars>>


(***************************************************************************)
(* The specifications.                                                     *)
(***************************************************************************)
vars == <<tvars, wvars, evars, cvars, hvars>>

TIdle ==
    /\ rxbuf = <<>>
    /\ cmdNo = 0
    /\ t_cmd = 0
    /\ t_frame = <<>>
    /\ t_reply = [intime |-> <<>>, late |-> <<>>, kind |-> "none"]
    /\ t_ack = <<>>
    /\ t_hdr = FALSE
    /\ t_read = <<>>
    /\ t_result = None

WIdle ==
    /\ wf = "none"
    /\ args = NoArgs
    /\ pc = "idle"
    /\ serialOpen = FALSE
    /\ sent = <<>>
    /\ samPhase = 1
    /\ samTry = 0
    /\ stage = "none"
    /\ attempt = 0
    /\ cc_data = <<>>
    /\ offset = 0
    /\ remaining = 0
    /\ ndef_bytes = <<>>
    /\ remaining_data = <<>>
    /\ cardSeen = FALSE
    /\ nbTg = 0
    /\ bodyCmds = 0
    /\ exc = "none"
    /\ result = NoResult
    /\ rejected = {}
    /\ prevResp = None

EIdle ==
    /\ lock = "free"
    /\ job = [t \in Threads |-> "none"]
    /\ tpc = [t \in Threads |-> "idle"]
    /\ stop = FALSE
    /\ portOpen = FALSE
    /\ cto = 0
    /\ r_apdu = <<>>
    /\ emuSel = FALSE
    /\ emuBuf = <<>>
    /\ emuExc = "none"
    /\ flight = "no"
    /\ lateCmds = <<>>
    /\ afterStop = <<>>
    /\ silent = 0
    /\ emuCfg = NotConfigured

CIdle ==
    /\ c_kind = "none"
    /\ c_selected = FALSE
    /\ c_buffer = <<>>
    /\ c_file = "none"
    /\ c_msg = <<>>
    /\ c_apdu = <<>>
    /\ c_reply = <<>>
    /\ c_count = 0
    /\ c_alive = FALSE
    /\ c_aid = [sent |-> FALSE, ok |-> FALSE]
    /\ c_before = [selected |-> FALSE, buffer |-> <<>>]
    /\ c_prev = <<>>
    /\ c_shadow = <<>>
    /\ calls = <<>>
    /\ results = <<>>

\* one initiator workflow, command by command
HIdle ==
    /\ f_cmd = 0
    /\ f_params = <<>>
    /\ f_frame = <<>>
    /\ f_raised = FALSE
    /\ x_attempt = 0
    /\ x_resp = None
    /\ x_ret = NotCalled
    /\ x_card = None

Init == WInit /\ TIdle /\ EIdle /\ CIdle /\ HIdle

Spec == Init /\ [][Next]_vars

\* _send_command calls in a row on one port, byte by byte
TInit == TIdle /\ WIdle /\ EIdle /\ CIdle /\ HIdle

TNext == TSendCommand

SpecTransport == TInit /\ [][TNext]_vars

\* the threads of one PN532 object
EmuInit == EInit /\ TIdle /\ WIdle /\ CIdle /\ HIdle

EmuNext ==
    \/ EmuStep
    \/ EmuSerialError
    \/ SetStop
    \/ \E t \in Threads : Call(t)
    \/ \E t \in Threads : Acquire(t)
    \/ \E t \in Threads : Release(t)
    \/ \E t \in Threads : WorkflowPortOp(t)
    \/ \E t \in Threads : SetPort(t)

SpecEmu == EmuInit /\ [][EmuNext]_vars

\* The same with the scheduling the code can count on: a thread that can
\* take a step of its method eventually takes one, and every PN532 command
\* returns.  Nothing forces a thread to call its method, stop_event to be
\* set or the port to fail.
EmuLiveInit ==
    /\ EmuInit
    /\ job["w1"] = "scan_type_a"
    /\ job["w2"] = "read_ndef_tag"

EmuFairness ==
    /\ WF_vars(EmuStep)
    /\ \A t \in Threads : WF_vars(ThreadStep(t))

SpecEmuLive == EmuLiveInit /\ [][EmuNext]_vars /\ EmuFairness

\* The body loops.  The thread that runs the workflow keeps running and
\* in_data_exchange returns within its timeout: a step that can be taken is
\* taken.
LoopInit == LInit /\ TIdle /\ EIdle /\ CIdle /\ HIdle

LoopNext == LoopSend \/ LoopAnswer

SpecLoop == LoopInit /\ [][LoopNext]_vars /\ WF_vars(LoopNext)

\* a fresh tag emulator handling APDUs
DispatchInit ==
    /\ FreshCard
    /\ calls = <<>>
    /\ results = <<>>
    /\ TIdle /\ WIdle /\ EIdle /\ HIdle

DispatchNext ==
    \/ VaultApdu
    \/ T4Apdu

SpecDispatch == DispatchInit /\ [][DispatchNext]_vars

\* workflows run against an emulated tag
CardSpecInit == CardInit /\ TIdle /\ EIdle /\ HIdle

CardNext ==
    \/ CardExchange
    \/ WfRelease
    \/ WfPowerDown
    \/ CardNextCall

SpecCard == CardSpecInit /\ [][CardNext]_vars

\* _build_frame on its own, one call after another
FrameInit == HIdle /\ TIdle /\ WIdle /\ EIdle /\ CIdle

FrameNext == BuildFrameCall

SpecFrame == FrameInit /\ [][FrameNext]_vars

\* _exchange_apdu on its own, one call after another
XchgInit == HIdle /\ TIdle /\ WIdle /\ EIdle /\ CIdle

XchgNext == XchgPass

SpecExchange == XchgInit /\ [][XchgNext]_vars


(***************************************************************************)
(* Properties.                                                             *)
(***************************************************************************)
IsCmd(e, c) == e.k = "cmd" /\ e.cmd = c

\* the positions of `sent` that hold command c
Positions(c) == {i \in DOMAIN sent : IsCmd(sent[i], c)}

\* the positions of `sent` that hold the port event `name`
EventPositions(name) == {i \in DOMAIN sent : sent[i].k = name}

\* the workflow has returned, and not because the serial port failed
Returned == pc = "done" /\ exc # "SerialException"

\* C1: when a workflow returns (the port working), every
\* InListPassiveTarget it sent is followed by an InRelease or a PowerDown.
C1_InListPaired ==
    Returned =>
        \A i \in Positions(CMD_InListPassiveTarget) :
            \E j \in Positions(CMD_InRelease) \cup Positions(CMD_PowerDown) : j > i

\* C2: when a workflow in which InListPassiveTarget reported a target
\* returns (the port working), it has sent InRelease and then PowerDown
\* after the InListPassiveTarget.
C2_PostambleAfterTarget ==
    (Returned /\ cardSeen) =>
        \A i \in Positions(CMD_InListPassiveTarget) :
            \E j \in Positions(CMD_InRelease) :
                \E k \in Positions(CMD_PowerDown) : i < j /\ j < k

\* C3: every byte a _send_command call consumes was sent by the PN532 in
\* answer to that call: nothing of an earlier command is left to be read as
\* the ACK or the response of a later one.
C3_NoStaleByteRead == \A i \in DOMAIN t_read : t_read[i].of = cmdNo

\* a thread is inside the `with self._lock:` block of its method, where
\* all its serial operations are
InMethod(t) == tpc[t] \notin {"idle", "wait", "done"}

\* C4: at most one thread is inside a public method's locked block, where
\* all its serial operations are; so while emulate_tag is there no other
\* workflow has started its serial operations.
C4_OneWorkflowAtATime == Cardinality({t \in Threads : InMethod(t)}) <= 1

\* a command of emulate_tag is in flight and every other thread has called
\* its method and waits for the lock
C4_Witness ==
    /\ tpc["emu"] = "getWait"
    /\ \A t \in Threads \ {"emu"} : tpc[t] = "wait"
    /\ lock = "emu"

\* C5 as stated: once stop_event was set under a command in flight and
\* that command has returned, emulate_tag starts no loop command.
C5_NoCommandAfterStop == lateCmds = <<>>

\* the entries of a history that are TgInitAsTarget or TgGetData
Polls(h) == {i \in DOMAIN h : h[i] \in {CMD_TgInitAsTarget, CMD_TgGetData}}

\* C5 as amended: stop_event is looked at only at the top of the two
\* loops.  Once it was set under a command in flight and that command has
\* returned, the only command emulate_tag still starts is one TgSetData
\* (the answer to the C-APDU a TgGetData returned); and in every case it
\* starts, after stop_event is set, at most one TgInitAsTarget or
\* TgGetData (the one whose check had passed) and at most one TgSetData.
C5_OnlyPendingReply ==
    /\ Len(lateCmds) <= 1
    /\ \A i \in DOMAIN lateCmds : lateCmds[i] = CMD_TgSetData
    /\ Cardinality(Polls(afterStop)) <= 1
    /\ Cardinality(DOMAIN afterStop \ Polls(afterStop)) <= 1
    /\ Polls(afterStop) \subseteq {1}

\* stop_event was set under a TgGetData in flight, the R-APDU went out in
\* a TgSetData after that, and emulate_tag has returned
C5_Witness ==
    /\ lateCmds = <<CMD_TgSetData>>
    /\ tpc["emu"] = "done"
    /\ emuExc = "none"

\* emulate_tag has been called and has not returned
EmuRunning == tpc["emu"] \notin {"idle", "done"}

\* C6: once stop_event is set while emulate_tag runs, emulate_tag
\* eventually returns and the lock is released; and a scan_type_a that
\* waits for the lock eventually gets it and runs.
C6_CancelIsLive ==
    /\ (stop /\ EmuRunning) ~> (tpc["emu"] = "done" /\ lock # "emu")
    /\ (stop /\ tpc["w1"] = "wait") ~> InMethod("w1")

\* emulate_tag was cancelled in its loop and has returned without an
\* error, and the scan_type_a that waited is at its serial operations
C6_Witness ==
    /\ stop
    /\ afterStop # <<>>
    /\ tpc["emu"] = "done"
    /\ emuExc = "none"
    /\ job["w1"] = "scan_type_a"
    /\ tpc["w1"] = "op2"

\* C7: emulate_tag leaves its loop only when stop_event is set or the
\* serial port has raised an error.
C7_RunsUntilCancelled ==
    tpc["emu"] \in {"ret", "done"} => (stop \/ emuExc = "SerialException")

\* the number of SAMConfiguration commands, hard resets and reopens so far
SamCount == Cardinality(Positions(CMD_SAMConfiguration))

HardResets == Cardinality(EventPositions("hard_reset"))

Reopens == Cardinality(EventPositions("open") \ {1})

\* sam_configuration has returned a response to the workflow
SamSucceeded == pc \in {"fw", "rf1", "rf2", "inlist", "xchg", "rel", "pd"}

\* C8: sam_configuration escalates in a fixed order.  There is a hard
\* reset exactly when more than 3 SAMConfiguration commands were needed
\* and a reopen exactly when more than 6 were, each at most once, each
\* followed by a wake-up, each only after the 3 (6) commands before it;
\* there are at most 9 commands, and None is returned only after 9.
C8_SamEscalation ==
    /\ SamCount <= 3 * SAM_RETRIES
    /\ HardResets <= 1
    /\ Reopens <= 1
    /\ \A i \in EventPositions("hard_reset") :
          /\ Cardinality({j \in Positions(CMD_SAMConfiguration) : j < i}) = SAM_RETRIES
          /\ i < Len(sent) /\ sent[i + 1].k = "wakeup"
    /\ \A i \in EventPositions("open") \ {1} :
          /\ Cardinality({j \in Positions(CMD_SAMConfiguration) : j < i}) = 2 * SAM_RETRIES
          /\ HardResets = 1
          /\ sent[i - 1].k = "close"
          /\ i < Len(sent) /\ sent[i + 1].k = "wakeup"
    /\ SamCount > SAM_RETRIES => HardResets = 1
    /\ SamCount > 2 * SAM_RETRIES => Reopens = 1
    /\ result.error = "SAMConfiguration failed" =>
          SamCount = 3 * SAM_RETRIES /\ HardResets = 1 /\ Reopens = 1
    /\ SamSucceeded /\ SamCount <= SAM_RETRIES + 1 => HardResets <= 1 /\ Reopens = 0

\* three SAMConfiguration commands failed, the fourth succeeded, and the
\* workflow goes on after one hard reset and no reopen
C8_Witness ==
    /\ SamSucceeded
    /\ SamCount = 4
    /\ HardResets = 1
    /\ Reopens = 0

\* the response frame of the latest call, as the PN532 sent it
ReplyFrame == Drop(t_reply.intime, Len(ACK_FRAME))

\* C9: a call that read a proper ACK and then a response frame of its own
\* with one byte of LEN, LCS, the data block or DCS changed, so that a
\* checksum fails, returns None.
C9_BadChecksumRejected ==
    (/\ cmdNo > 0
     /\ t_reply.kind = "bad_resp"
     /\ \A i \in DOMAIN t_read : t_read[i].of = cmdNo
     /\ ~ChecksumsOk(ReplyFrame))
        => ~t_result.some

\* C10: a call goes on to read a response frame only if the 6 bytes of
\* its ACK slot are 00 00 FF 00 FF 00; with any other bytes there, or
\* fewer, it returns None and reads no further.
C10_AckExact ==
    cmdNo > 0 =>
        /\ t_hdr => t_ack = ACK_FRAME
        /\ t_ack # ACK_FRAME => (~t_hdr /\ ~t_result.some /\ Len(t_read) = Len(t_ack))

\* the PN532 sent an ACK with one byte changed, then a response: the call
\* returned None and left the response unread
C10_Witness ==
    /\ cmdNo = 1
    /\ t_reply.kind = "bad_ack"
    /\ Len(t_ack) = 6
    /\ ~t_hdr
    /\ ~t_result.some
    /\ rxbuf # <<>>

\* C11: as long as no SELECT by the NDEF AID has returned 90 00, a
\* Type4TagEmulator prevResp every READ BINARY with 6A 82.
C11_ReadNeedsAid ==
    (c_kind = "type4" /\ ~c_aid.ok /\ Len(c_apdu) >= 4 /\ c_apdu[2] = 176)
        => c_reply = SW_NOT_FOUND

\* C12: as long as no SELECT by the Vault AID has been handled, a
\* VaultTagEmulator prevResp every READ BINARY and every WRITE of at least
\* 4 bytes with 6A 82 and leaves its buffer as it was.
C12_VaultNeedsSelect ==
    (c_kind = "vault" /\ ~c_aid.sent /\ Len(c_apdu) >= 4 /\ c_apdu[2] \in {176, 208})
        => /\ c_reply = SW_NOT_FOUND
           /\ c_buffer = c_before.buffer
           /\ ~c_selected

\* an unselected emulator has rejected a WRITE that lies inside the buffer,
\* after SELECTs that do not carry the Vault AID
C12_Witness ==
    /\ c_kind = "vault"
    /\ ~c_aid.sent
    /\ c_count >= 2
    /\ c_prev # <<>> /\ c_prev[2] = 164
    /\ c_apdu = VaultWrite(250, <<65, 66, 67, 68, 69>>)
    /\ c_reply = SW_NOT_FOUND

\* the latest APDU is WRITE(off, d) or READ(off, le) inside the buffer, to
\* a selected emulator
InRange(apdu) == c_before.selected /\ apdu[4] + apdu[5] <= BUFFER_SIZE

\* C13: to a selected VaultTagEmulator, a WRITE(off, d) with
\* off + len(d) <= 256 returns 90 00; a READ(off, le) with off + le <= 256
\* returns le bytes and 90 00, each byte being the one the latest such WRITE
\* put at its offset; and the same WRITE twice in a row leaves the buffer
\* as the first left it.
C13_WriteThenRead ==
    c_kind = "vault" =>
        /\ (IsWrite(c_apdu) /\ InRange(c_apdu)) => c_reply = SW_OK
        /\ (IsRead(c_apdu) /\ InRange(c_apdu)) =>
              /\ Len(c_reply) = c_apdu[5] + 2
              /\ Slice(c_reply, c_apdu[5], c_apdu[5] + 2) = SW_OK
              /\ \A j \in 1..c_apdu[5] :
                    c_shadow[c_apdu[4] + j] # -1 => c_reply[j] = c_shadow[c_apdu[4] + j]
        /\ (IsWrite(c_apdu) /\ InRange(c_apdu) /\ c_prev = c_apdu) =>
              c_buffer = c_before.buffer

\* SELECT, WRITE(250, "ABCDE"), an APDU that writes elsewhere or nothing,
\* then READ(250, 5) returning ABCDE 90 00
C13_Witness ==
    /\ c_kind = "vault"
    /\ c_count = 4
    /\ c_apdu = VaultRead(250, 5)
    /\ c_prev # VaultWrite(250, <<65, 66, 67, 68, 69>>)
    /\ c_reply = <<65, 66, 67, 68, 69>> \o SW_OK
    /\ \A i \in 251..255 : c_shadow[i] # -1

\* C14: to a selected VaultTagEmulator, a WRITE(off, d) with
\* off + len(d) > 256 returns 6A 82 and leaves every byte of the buffer as
\* it was.
C14_WriteOutOfRange ==
    (c_kind = "vault" /\ c_before.selected /\ IsWrite(c_apdu)
     /\ c_apdu[4] + c_apdu[5] > BUFFER_SIZE)
        => /\ c_reply = SW_NOT_FOUND
           /\ c_buffer = c_before.buffer

\* a selected emulator whose buffer holds written data has rejected
\* WRITE(253, 5 bytes)
C14_Witness ==
    /\ c_kind = "vault"
    /\ c_before.selected
    /\ c_apdu = VaultWrite(253, <<1, 2, 3, 4, 5>>)
    /\ c_reply = SW_NOT_FOUND
    /\ c_shadow # NoShadow
    /\ Len(c_buffer) = BUFFER_SIZE

\* the script is over: every call has returned
Finished == pc = "done" /\ calls = <<>>

\* the calls made, in order, with what they returned
AllCalls == Append(results, Made)

IsReadOf(c, off, n) ==
    c.wf = "read_vault_tag" /\ c.args.offset = off /\ c.args.length = n

\* C15: against a VaultTagEmulator served by emulate_tag, a
\* write_vault_tag(off, d) with off + len(d) <= 256 reports success and a
\* read_vault_tag(off, len(d)) called next reports success and returns d; a
\* write_vault_tag(off, d) with off <= 255 and off + len(d) > 256 reports
\* failure with status word 6A 82.
C15_VaultRoundTrip ==
    (Finished /\ c_kind = "vault") =>
        \A i \in DOMAIN AllCalls :
            AllCalls[i].wf = "write_vault_tag" =>
                LET off == AllCalls[i].args.offset
                    d == AllCalls[i].args.data
                IN  /\ off + Len(d) <= BUFFER_SIZE =>
                          /\ AllCalls[i].result.success
                          /\ (i < Len(AllCalls) /\ IsReadOf(AllCalls[i + 1], off, Len(d))) =>
                                /\ AllCalls[i + 1].result.success
                                /\ AllCalls[i + 1].result.data = d
                    /\ (off <= 255 /\ off + Len(d) > BUFFER_SIZE) =>
                          /\ ~AllCalls[i].result.success
                          /\ AllCalls[i].result.sw = SW_NOT_FOUND

\* the writes between calls i and j leave [off, off + n) alone, by the
\* offsets the caller gave
Untouched(i, j, off, n) ==
    \A k \in (i + 1)..(j - 1) :
        /\ AllCalls[k].wf = "write_vault_tag"
        /\ \/ AllCalls[k].args.offset + Len(AllCalls[k].args.data) <= off
           \/ AllCalls[k].args.offset >= off + n

\* C16: against a VaultTagEmulator served by emulate_tag (a buffer of 256
\* bytes), a write_vault_tag at an offset of 256 or more is rejected; and
\* should one succeed, a read_vault_tag of the same offset and length,
\* after writes to other offsets only, returns the data written.
C16_OffsetsNotAliased ==
    (Finished /\ c_kind = "vault") =>
        \A i \in DOMAIN AllCalls :
            (AllCalls[i].wf = "write_vault_tag" /\ AllCalls[i].args.offset >= BUFFER_SIZE) =>
                /\ ~AllCalls[i].result.success
                /\ AllCalls[i].result.success =>
                      \A j \in DOMAIN AllCalls :
                          (/\ j > i
                           /\ IsReadOf(AllCalls[j], AllCalls[i].args.offset,
                                       Len(AllCalls[i].args.data))
                           /\ Untouched(i, j, AllCalls[i].args.offset,
                                        Len(AllCalls[i].args.data)))
                              => AllCalls[j].result.data = AllCalls[i].args.data

\* C17: a workflow that returned normally after one of its APDUs came back
\* with a status word other than 90 00 reports success = false and an
\* error that carries a rejected status word.
C17_RejectionReported ==
    (pc = "done" /\ exc = "none" /\ rejected # {}) =>
        (~result.success /\ result.sw \in rejected)

\* C18: read_ndef_tag run against Type4TagEmulator(m) served by
\* emulate_tag reports success and returns exactly the bytes of m.
C18_NdefRoundTrip ==
    (Finished /\ c_kind = "type4" /\ wf = "read_ndef_tag") =>
        /\ result.success
        /\ result.data = c_msg

\* C19: in a write_ndef_tag run whose CC has write access other than 00 or
\* a max NDEF size below 2 + len(message), no UPDATE BINARY (INS D6) has
\* been sent, and once the run has returned its result is a failure.
UpdatesSent ==
    {i \in Positions(CMD_InDataExchange) :
        Len(sent[i].params) >= 3 /\ sent[i].params[3] = 214}

PreflightFails ==
    /\ wf = "write_ndef_tag"
    /\ Len(cc_data) >= 15
    /\ \/ cc_data[15] # 0
       \/ 2 + Len(args.data) > cc_data[12] * 256 + cc_data[13]

C19_NoUpdateUnlessPreflight ==
    PreflightFails =>
        /\ UpdatesSent = {}
        /\ pc = "done" => ~result.success

\* write access FF: the run has returned "Write access denied" after the
\* postamble, with READ CC as its last APDU
C19_Witness ==
    /\ PreflightFails
    /\ cc_data[15] = 255
    /\ pc = "done"
    /\ result.error = "Write access denied"
    /\ UpdatesSent = {}
    /\ Positions(CMD_InRelease) # {}

\* C20 as stated: a scan_type_a that returned (the port working) has sent
\* InRelease and then PowerDown.
C20_ScanAlwaysPostamble ==
    (wf = "scan_type_a" /\ Returned) =>
        \E j \in Positions(CMD_InRelease) :
            \E k \in Positions(CMD_PowerDown) : j < k

\* C20 as amended: a scan_type_a that returned a result other than
\* "SAMConfiguration failed" (the port working) has sent PowerDown as its
\* last command, once; it has sent InRelease, once and just before the
\* PowerDown, exactly when _parse_14443a_target returned a card.  After a
\* failed SAMConfiguration it has sent neither.
C20_ScanPowerDown ==
    (wf = "scan_type_a" /\ Returned) =>
        IF result.error = "SAMConfiguration failed"
        THEN Positions(CMD_PowerDown) = {} /\ Positions(CMD_InRelease) = {}
        ELSE /\ Positions(CMD_PowerDown) = {Len(sent)}
             /\ Positions(CMD_InRelease) = IF cardSeen THEN {Len(sent) - 1} ELSE {}
             /\ result.success

\* no target (D5 4B 00): the scan has returned success with PowerDown as
\* its last command and no InRelease
C20_Witness ==
    /\ wf = "scan_type_a"
    /\ Returned
    /\ result.success
    /\ ~cardSeen
    /\ nbTg = 0
    /\ Positions(CMD_InListPassiveTarget) # {}
    /\ Positions(CMD_InRelease) = {}
    /\ Positions(CMD_PowerDown) = {Len(sent)}

\* C21: _exchange_apdu sends an APDU again only after an InDataExchange
\* response with status 0x00 that left fewer than 2 bytes for SW1/SW2: a
\* non-zero status is reported at once.
C21_ResendOnlyOnShort ==
    (pc = "xchg" /\ attempt > 0) =>
        /\ prevResp.some
        /\ Len(prevResp.v) >= 3
        /\ prevResp.v[3] = 0
        /\ Len(StripPcbCid(Drop(prevResp.v, 3))) < 2

\* an InDataExchange response D5 41 00, a PCB byte b with (b & 0xE8) = 0x08,
\* one CID byte, a payload and 90 00
IsLeak(r) ==
    /\ r.some
    /\ Len(r.v) >= 7
    /\ SubSeq(r.v, 1, 3) = <<213, 65, 0>>
    /\ r.v[4] \in (8..15) \cup (24..31)
    /\ SubSeq(r.v, Len(r.v) - 1, Len(r.v)) = SW_OK

\* C22: for an InDataExchange response D5 41 00 PCB CID p 90 00 whose PCB
\* byte b has (b & 0xE8) = 0x08, _exchange_apdu returns (0x90, 0x00, p).
C22_LeakStripped ==
    IsLeak(x_resp) =>
        x_ret = [out |-> "ret", sw |-> SW_OK,
                 payload |-> SubSeq(x_resp.v, 6, Len(x_resp.v) - 2)]

\* PCB 0A with an empty payload: (0x90, 0x00, b"") has been returned
C22_Witness ==
    /\ x_resp = Some(<<213, 65, 0, 10, 1, 144, 0>>)
    /\ x_ret = [out |-> "ret", sw |-> SW_OK, payload |-> <<>>]

\* the latest APDU was a READ BINARY handled by a Type4TagEmulator with a
\* file selected
T4ReadHandled ==
    /\ c_kind = "type4"
    /\ c_count > 0
    /\ Len(c_apdu) >= 4
    /\ c_apdu[2] = 176
    /\ c_file # "none"

\* C23: a Type4TagEmulator with a file selected answers READ BINARY at
\* offset = (P1 << 8) | P2 with 6A 82 when the offset is greater than the
\* file length, and otherwise with the bytes of the file from the offset up
\* to offset + Le or the end of the file, whichever comes first, and 90 00.
C23_ReadWithinFile ==
    T4ReadHandled =>
        LET f == IF c_file = "cc" THEN T4CcFile(c_msg) ELSE T4NdefFile(c_msg)
            off == c_apdu[3] * 256 + c_apdu[4]
            le == IF Len(c_apdu) > 4 THEN c_apdu[5] ELSE 0
            n == Min(off + le, Len(f)) - off
        IN  IF off > Len(f) THEN c_reply = SW_NOT_FOUND
            ELSE /\ c_reply = [i \in 1..n |-> f[off + i]] \o SW_OK
                 /\ off + Len(c_reply) - 2 <= Len(f)

\* READ BINARY at offset 6 with Le 255 on the CC file: the 9 bytes up to
\* the end of the file have come back
C23_Witness ==
    /\ T4ReadHandled
    /\ c_file = "cc"
    /\ c_apdu = <<0, 176, 0, 6, 255>>
    /\ Len(c_reply) = 11

\* C24: a Type4TagEmulator answers every UPDATE BINARY of at least 4 bytes
\* with exactly 6A 82, and no APDU changes the message its CC file and its
\* NDEF file are made of.
C24_ReadOnly ==
    /\ [](c_kind = "type4" /\ c_count > 0 /\ Len(c_apdu) >= 4 /\ c_apdu[2] = 214
            => c_reply = SW_NOT_FOUND)
    /\ [][c_kind = "type4" =>
            /\ T4CcFile(c_msg') = T4CcFile(c_msg)
            /\ T4NdefFile(c_msg') = T4NdefFile(c_msg)]_vars

\* an UPDATE BINARY for offset 2 of the selected NDEF file was answered
\* 6A 82, and a READ BINARY after it has returned the file as it was built
C24_Witness ==
    /\ c_kind = "type4"
    /\ c_file = "ndef"
    /\ c_msg = <<209, 1, 1, 84>>
    /\ c_prev = <<0, 214, 0, 2, 1, 7>>
    /\ c_apdu = <<0, 176, 0, 0, 15>>
    /\ c_reply = <<0, 4, 209, 1, 1, 84>> \o SW_OK

\* _build_frame has been called
FrameBuilt == f_raised \/ f_frame # <<>>

\* C25: for params of at most 253 bytes _build_frame returns
\* 00 00 FF LEN LCS D4 cmd params DCS 00 with LEN = 2 + len(params),
\* (LEN + LCS) mod 256 = 0 and (D4 + cmd + sum(params) + DCS) mod 256 = 0,
\* every element a byte.
C25_FrameChecksums ==
    (FrameBuilt /\ Len(f_params) <= 253) =>
        /\ ~f_raised
        /\ Len(f_frame) = Len(f_params) + 9
        /\ \A i \in DOMAIN f_frame : f_frame[i] \in 0..255
        /\ LET LEN == f_frame[4]
               LCS == f_frame[5]
               DCS == f_frame[Len(f_frame) - 1]
           IN  /\ f_frame = <<0, 0, 255, LEN, LCS, 212, f_cmd>> \o f_params \o <<DCS, 0>>
               /\ LEN = 2 + Len(f_params)
               /\ (LEN + LCS) % 256 = 0
               /\ (212 + f_cmd + Sum(f_params) + DCS) % 256 = 0

\* the longest frame: command FF with 253 bytes FF has LEN FF and LCS 01
C25_Witness ==
    /\ f_cmd = 255
    /\ f_params = Fill(253, 255)
    /\ ~f_raised
    /\ f_frame[4] = 255
    /\ f_frame[5] = 1
    /\ Len(f_frame) = 262

\* C26: every APDU a workflow is about to hand to InDataExchange gives
\* _build_frame params (Tg and the APDU) of at most 253 bytes.
C26_FrameFitsLen ==
    (pc = "xchg" /\ \A i \in DOMAIN StageApdu : StageApdu[i] <= 255) =>
        Len(<<1>> \o StageApdu) <= 253

\* the UPDATE BINARY commands in `sent`: file offset and data of the one at
\* position i, those that address the length prefix and those that address
\* the message body
UpdOffset(i) == sent[i].params[4] * 256 + sent[i].params[5]

UpdData(i) == Drop(sent[i].params, 6)

PrefixUpdates == {i \in UpdatesSent : UpdOffset(i) = 0}

BodyUpdates == {i \in UpdatesSent : UpdOffset(i) >= 2}

\* the body UPDATE at position j covers byte k of the message
Covers(j, k) ==
    /\ UpdOffset(j) - 2 < k
    /\ k <= UpdOffset(j) - 2 + Len(UpdData(j))

\* the body UPDATEs B sent before position i have written the whole message
BodyWrittenBefore(B, i) ==
    \A k \in 1..Len(args.data) :
        \E j \in B :
            j < i /\ Covers(j, k) /\ UpdData(j)[k - (UpdOffset(j) - 2)] = args.data[k]

\* what the UPDATEs sent so far have put in the length prefix of the file
CardPrefix ==
    LET P == PrefixUpdates
    IN  UpdData(CHOOSE i \in P : \A j \in P : j <= i)

\* C27: write_ndef_tag sends UPDATE BINARY 00 00 at offset 0 first, then the
\* body chunks, and the true length at offset 0 last, only after every
\* exchange before it returned 90 00 and the chunks sent cover the whole
\* message; so whenever the length prefix written so far is not 0, the
\* whole body has been written.
C27_LengthLast ==
    (wf = "write_ndef_tag" /\ stage \in {"upd_zero", "upd_body", "upd_len"}) =>
        LET U == UpdatesSent
            P == {i \in U : UpdOffset(i) = 0}
            B == U \ P
        IN  U # {} =>
            /\ \A i \in U :
                  (\A j \in U : i <= j) =>
                      Drop(sent[i].params, 1) = <<0, 214, 0, 0, 2, 0, 0>>
            /\ \A i \in B : UpdOffset(i) >= 2
            /\ \A i \in P :
                  /\ UpdData(i) \in {<<0, 0>>, PackH(Len(args.data))}
                  /\ UpdData(i) # <<0, 0>> =>
                        /\ BodyWrittenBefore(B, i)
                        /\ \A j \in U : j > i => sent[j] = sent[i]
                  /\ (UpdData(i) = <<0, 0>> /\ args.data # <<>>) =>
                        \A j \in B : i < j
            /\ (pc = "xchg" /\ stage = "upd_len") =>
                  rejected = {} /\ BodyWrittenBefore(B, Len(sent) + 1)
            /\ CardPrefix # <<0, 0>> => BodyWrittenBefore(B, Len(sent) + 1)

\* a run that failed part-way: the first chunk of a 53-byte message was
\* accepted, the second was rejected, and the prefix written is still 00 00
C27_Witness ==
    /\ wf = "write_ndef_tag"
    /\ Len(args.data) = 53
    /\ pc = "done"
    /\ result.error = "UPDATE BINARY (data) failed"
    /\ \E i, j \in BodyUpdates : UpdOffset(i) = 2 /\ UpdOffset(j) = 54
    /\ CardPrefix = <<0, 0>>

\* C28: the body UPDATE BINARY commands of write_ndef_tag carry consecutive
\* slices of the message, each of at most min(MLc, 52) bytes, the first at
\* offset 2 and each next one where the one before it ended (or the same
\* command again, when _exchange_apdu repeats it); once the loop is over,
\* every byte of the message is covered by the chunk of exactly one offset.
C28_BodyChunks ==
    (wf = "write_ndef_tag" /\ stage \in {"upd_body", "upd_len"}) =>
        LET B == BodyUpdates
        IN  /\ \A i \in B :
                  LET k == UpdOffset(i) - 2
                      d == UpdData(i)
                  IN  /\ Len(d) <= Min(cc_data[6] * 256 + cc_data[7], 52)
                      /\ sent[i].params[6] = Len(d)
                      /\ k + Len(d) <= Len(args.data)
                      /\ d = SubSeq(args.data, k + 1, k + Len(d))
                      /\ (\A j \in B : i <= j) => k = 0
                      /\ \A j \in B :
                            (j < i /\ \A m \in B : ~(j < m /\ m < i)) =>
                                \/ UpdOffset(i) = UpdOffset(j) + Len(UpdData(j))
                                \/ sent[i] = sent[j]
            /\ stage = "upd_len" =>
                  \A k \in 1..Len(args.data) :
                      Cardinality({UpdOffset(j) : j \in {m \in B : Covers(m, k)}}) = 1

\* MLc 255: a 53-byte message has gone out as 52 bytes at offset 2 and 1
\* byte at offset 54, and the run has succeeded
C28_Witness ==
    /\ wf = "write_ndef_tag"
    /\ Len(args.data) = 53
    /\ Len(cc_data) >= 15
    /\ cc_data[6] * 256 + cc_data[7] = 255
    /\ pc = "done"
    /\ result.success
    /\ {<<UpdOffset(i), Len(UpdData(i))>> : i \in BodyUpdates} = {<<2, 52>>, <<54, 1>>}

\* emulate_tag is inside its inner loop
InInnerLoop == tpc["emu"] \in {"inner", "getSend", "getWait", "setSend", "setWait"}

\* C29: consecutive_timeouts never exceeds 3; inside the inner loop it is
\* the number of TgGetData commands that returned None in a row (so a
\* TgGetData that returns data puts it back to 0, and it is 0 while the
\* R-APDU goes out); once it is 3 the loop is left, so that the next
\* command is TgInitAsTarget or none; and no more than 3 TgGetData
\* commands in a row return None with no TgInitAsTarget in between.
C29_RearmOnSilence ==
    /\ cto \in 0..3
    /\ silent \in 0..3
    /\ InInnerLoop => cto = silent /\ cto < 3
    /\ tpc["emu"] \in {"setSend", "setWait"} => cto = 0
    /\ silent = 3 => tpc["emu"] \in {"outer", "initSend", "ret", "done"}

\* three TgGetData commands in a row returned None and emulate_tag, not
\* cancelled, is about to send TgInitAsTarget
C29_Witness ==
    /\ cto = 3
    /\ silent = 3
    /\ ~stop
    /\ tpc["emu"] = "initSend"

\* C30: an R-APDU the dispatcher returned for a TgGetData response with
\* status 0x00 goes out in a TgSetData, and a TgSetData is sent only with
\* such an R-APDU at hand (the serial port working).
C30_PingPong ==
    emuExc # "SerialException" =>
        /\ r_apdu # <<>> => tpc["emu"] \in {"setSend", "setWait"}
        /\ tpc["emu"] \in {"setSend", "setWait"} => r_apdu # <<>> /\ cto = 0

\* the data field of a SELECT APDU a, as far as Lc and the APDU reach
SelectData(a) ==
    IF Len(a) < 5 THEN <<>> ELSE SubSeq(a, 6, Min(5 + a[5], Len(a)))

\* C31: a Type4TagEmulator starts with no file selected and has at most one
\* selected; a SELECT with P1 = 00 and the 2-byte data E1 03 or E1 04
\* selects exactly that file and returns 90 00; every other SELECT (by AID,
\* matching or not, and every one answered 6A 82) leaves the selection as
\* it was.
C31_SelectFrame ==
    /\ [](c_kind = "type4" =>
             /\ c_file \in {"none", "cc", "ndef"}
             /\ c_count = 0 => c_file = "none")
    /\ [][(c_kind = "type4" /\ c_count' = c_count + 1
           /\ Len(c_apdu') >= 4 /\ c_apdu'[2] = 164) =>
            LET a == c_apdu'
                d == SelectData(a)
            IN  /\ c_reply' \in {SW_OK, SW_NOT_FOUND}
                /\ IF Len(a) >= 5 /\ a[3] = 0 /\ d \in {<<225, 3>>, <<225, 4>>}
                   THEN /\ c_file' = IF d = <<225, 3>> THEN "cc" ELSE "ndef"
                        /\ c_reply' = SW_OK
                   ELSE /\ c_file' = c_file
                        /\ (Len(a) < 5 \/ a[3] # 4) => c_reply' = SW_NOT_FOUND
                /\ c_reply' = SW_NOT_FOUND => c_file' = c_file]_vars

\* with the NDEF file selected, a SELECT by the NDEF AID was answered 90 00
\* and the NDEF file is still the one selected
C31_Witness ==
    /\ c_kind = "type4"
    /\ c_prev = <<0, 164, 0, 12, 2, 225, 4>>
    /\ c_apdu = <<0, 164, 4, 0, 7>> \o NDEF_AID \o <<0>>
    /\ c_reply = SW_OK
    /\ c_file = "ndef"

\* C32: a selected VaultTagEmulator answers a WRITE whose offset (P2) and
\* Lc byte give offset + Lc > 256 with 6A 82 and leaves its buffer as it
\* was, whatever the number of data bytes the APDU carries.
C32_WriteBoundedByLc ==
    (/\ c_kind = "vault"
     /\ c_count > 0
     /\ c_before.selected
     /\ Len(c_apdu) >= 5
     /\ c_apdu[2] = 208
     /\ c_apdu[4] + c_apdu[5] > 256) =>
        /\ c_reply = SW_NOT_FOUND
        /\ c_buffer = c_before.buffer

\* C33: the buffer of a VaultTagEmulator always has exactly 256 bytes; a
\* WRITE answered 90 00 leaves every byte outside off .. off + len(d) - 1
\* as it was (off = P2, d the data bytes the APDU carries, up to Lc), and
\* every other APDU (SELECT, READ BINARY, a rejected WRITE, an unknown or
\* truncated one) leaves the whole buffer as it was.
C33_BufferFrame ==
    c_kind = "vault" =>
        /\ Len(c_buffer) = 256
        /\ Len(c_before.buffer) = 256
        /\ c_count > 0 =>
              IF Len(c_apdu) >= 5 /\ c_apdu[2] = 208 /\ c_reply = SW_OK
              THEN LET off == c_apdu[4]
                       n == Min(c_apdu[5], Len(c_apdu) - 5)
                   IN  \A i \in 1..256 :
                           (i <= off \/ i > off + n) => c_buffer[i] = c_before.buffer[i]
              ELSE c_buffer = c_before.buffer

\* an emulator built with 2048 bytes of initial data has taken a WRITE of
\* 5 bytes at offset 250: bytes 250..254 changed, the byte before them did
\* not
C33_Witness ==
    /\ c_kind = "vault"
    /\ c_apdu = VaultWrite(250, <<65, 66, 67, 68, 69>>)
    /\ c_reply = SW_OK
    /\ c_before.buffer = VaultInitBuffer(MakeTestData(2048))
    /\ SubSeq(c_buffer, 251, 255) = <<65, 66, 67, 68, 69>>
    /\ c_buffer # c_before.buffer
    /\ c_buffer[250] = 249
    /\ c_buffer[256] = 255

\* the instructions each dispatcher knows: SELECT, READ BINARY, and WRITE
\* (Vault) or UPDATE BINARY (Type 4)
KnownIns == IF c_kind = "vault" THEN {164, 176, 208} ELSE {164, 176, 214}

\* C34: whatever byte string handle_apdu is given, the R-APDU ends with
\* 90 00, 6A 82, 6D 00 or 67 00; an APDU shorter than 4 bytes and an APDU
\* with an unknown INS are answered exactly 6D 00 and change neither the
\* selection nor the data of the emulator.
C34_DispatchersTotal ==
    /\ [](c_count > 0 =>
             /\ Len(c_reply) >= 2
             /\ SubSeq(c_reply, Len(c_reply) - 1, Len(c_reply))
                   \in {SW_OK, SW_NOT_FOUND, <<109, 0>>, <<103, 0>>})
    /\ [][(c_count' = c_count + 1
           /\ (Len(c_apdu') < 4 \/ c_apdu'[2] \notin KnownIns)) =>
            /\ c_reply' = <<109, 0>>
            /\ c_selected' = c_selected
            /\ c_buffer' = c_buffer
            /\ c_file' = c_file
            /\ c_msg' = c_msg]_vars

\* a selected VaultTagEmulator was given the empty byte string: 6D 00, and
\* it is still selected
C34_Witness ==
    /\ c_kind = "vault"
    /\ c_count > 0
    /\ c_apdu = <<>>
    /\ c_reply = <<109, 0>>
    /\ c_before.selected
    /\ c_selected

\* C35: every reader activation starts from the initial dispatcher state:
\* whenever emulate_tag is about to send, or has sent, TgInitAsTarget, the
\* emulator it was given has no application selected.
C35_CleanOnRearm ==
    tpc["emu"] \in {"initSend", "initWait"} => ~emuSel

\* the latest InDataExchange response is D5 41 00 followed by the R-APDU
\* exactly as the card produced it, status word included
PlainAnswer ==
    /\ x_resp.some
    /\ x_card.some
    /\ Len(x_card.v) >= 2
    /\ x_resp.v = <<213, 65, 0>> \o x_card.v

\* C36: when InDataExchange returns D5 41 00 followed by the R-APDU r of
\* the card with no PCB/CID prefix, _exchange_apdu returns
\* (r[-2], r[-1], r[:-2]), whatever the first byte of r is.
C36_Transparent ==
    PlainAnswer =>
        x_ret = [out |-> "ret",
                 sw |-> SubSeq(x_card.v, Len(x_card.v) - 1, Len(x_card.v)),
                 payload |-> SubSeq(x_card.v, 1, Len(x_card.v) - 2)]

\* the body loop is over: the workflow is at in_release or has returned, or
\* write_ndef_tag is at the UPDATE BINARY of the length
LoopLeft == pc \in {"rel", "done"} \/ stage = "upd_len"

\* C37: whatever the card answers to the READ BINARY commands, the body
\* loop of read_ndef_tag comes to an end.
C37_ReadLoopEnds == (wf = "read_ndef_tag" /\ stage = "body") ~> LoopLeft

\* C38: whatever MLc the CC holds, the body loop of write_ndef_tag comes to
\* an end.
C38_WriteLoopEnds == (wf = "write_ndef_tag" /\ stage = "upd_body") ~> LoopLeft

\* C39: TgInitAsTarget is sent only after SAMConfiguration and
\* SetParameters(0x24) have each returned a response in that run of
\* emulate_tag.
C39_ArmedOnlyConfigured ==
    tpc["emu"] = "initWait" => emuCfg.sam /\ emuCfg.params

\* C40: a payload returned by _send_command(cmd) starts with the TFI 0xD5
\* and the response code cmd + 1.
C40_AnswersTheCommand ==
    t_result.some =>
        /\ Len(t_result.v) >= 2
        /\ t_result.v[1] = TFI_PN532_TO_HOST
        /\ t_result.v[2] = t_cmd + 1

=============================================================================
